---- MODULE Spec2Model ----
(***************************************************************************)
(* Model of the pubky SDK host classification / transport routing layer    *)
(* (pubky-sdk/src/client/http_targets/native.rs), of the FFI HTTP entry    *)
(* points, and of the FFI signer, session and storage handles              *)
(* (pubky-sdk/bindings/ffi/src).                                           *)
(*                                                                         *)
(* Strings are sequences of one-character strings, so that strip_prefix,   *)
(* length and alphabet checks are computed as the code computes them.      *)
(***************************************************************************)
EXTENDS Integers, Sequences, FiniteSets, Bags, TLC

VARIABLES
    url,        \* HTTP part: the URL under consideration: [host, path]
    last,       \* HTTP part: the last completed operation and its outcome
    heap,       \* session part: state of each FfiSession box
    releases,   \* session part: how many times each box has been released
    signedOut,  \* session part: pubky_session_signout has taken the handle
    inflight,   \* session part: the calls waiting inside block_on (a bag)
    done,       \* session part: record of the last returned call
    sessionOut, \* session part: the caller's cell behind session_out
    granted,    \* session part: the capabilities the homeserver grants
    caps,       \* session part: the capabilities in each session's info
    storage,    \* storage part: state of each FfiSessionStorage box
    public,     \* storage part: state of the FfiPublicStorage box
    store,      \* storage part: the user's objects on the homeserver
    written,    \* storage part: the last write to each path (history)
    revoked,    \* session part: the homeserver has invalidated the session
    runtime,    \* globals: state of each static Tokio runtime
    cells,      \* globals: the instance each global cell holds (0: none)
    bufs,       \* result part: state of each buffer handed to the caller
    held        \* result part: the result structure the caller holds

httpVars == <<url, last>>
storVars == <<storage, public, store, written>>
globVars == <<runtime, cells>>
bufVars == <<bufs, held>>
sessVars ==
    <<heap, releases, signedOut, inflight, done, sessionOut, granted, caps,
      revoked, storVars>>
vars ==
    <<url, last, heap, releases, signedOut, inflight, done, sessionOut,
      granted, caps, storage, public, store, written, revoked, runtime,
      cells, bufs, held>>

(***************************************************************************)
(* Bounds                                                                  *)
(***************************************************************************)
\* Length of the textual (z-base-32) form of a public key. The real length
\* is 52; the model scales it down so that every short host can be
\* enumerated. It stays longer than the "pubky" marker so that a raw key
\* may itself begin with the letters p,u,b,k,y.
KeyLen == 6

(***************************************************************************)
(* Strings                                                                 *)
(***************************************************************************)
\* "_pubky." (native.rs:14, native.rs:70)
ReservedPrefix == <<"_", "p", "u", "b", "k", "y", ".">>

\* "pubky", the marker of the display form (native.rs:170 "pubky<z32>")
PubkyMarker == <<"p", "u", "b", "k", "y">>

\* The z-base-32 alphabet, in digit order.
Z32Chars ==
    <<"y", "b", "n", "d", "r", "f", "g", "8", "e", "j", "k", "m", "c", "p",
      "q", "x", "o", "t", "1", "u", "w", "i", "s", "z", "a", "3", "4", "5",
      "h", "7", "6", "9">>

Z32Alphabet == {Z32Chars[i] : i \in 1..Len(Z32Chars)}

\* str::strip_prefix: Some(rest) when s starts with p, None otherwise.
strip_prefix(s, p) ==
    IF Len(s) >= Len(p) /\ SubSeq(s, 1, Len(p)) = p
    THEN [some |-> TRUE, rest |-> SubSeq(s, Len(p) + 1, Len(s))]
    ELSE [some |-> FALSE, rest |-> <<>>]

\* PublicKey::z32: one alphabet character per 5-bit digit of the key.
z32(K) == [i \in 1..Len(K) |-> Z32Chars[K[i] + 1]]

\* Display for PublicKey: the marker followed by the z32 form.
to_string(K) == PubkyMarker \o z32(K)

\* PublicKey::is_pubky_prefixed: the marker followed by a key-length rest.
is_pubky_prefixed(value) ==
    LET r == strip_prefix(value, PubkyMarker)
    IN  r.some /\ Len(r.rest) = KeyLen

\* PublicKey::try_from_z32(value).is_ok(): right length, right alphabet.
try_from_z32_ok(value) ==
    /\ Len(value) = KeyLen
    /\ \A i \in 1..Len(value) : value[i] \in Z32Alphabet

(***************************************************************************)
(* HostKind and classify_host (native.rs:6-25)                             *)
(***************************************************************************)
HostKind == {"ResolvedPubky", "Icann", "Pubky"}

\* Variants of classify_host, each with one slip of the kind the code could
\* have made; the properties below must tell them from classify_host.

\* ... the display-form checks are left out.
classify_host_no_prefixed_check(host) ==
    LET pk == strip_prefix(host, ReservedPrefix)
    IN  IF pk.some
        THEN IF try_from_z32_ok(pk.rest) THEN "ResolvedPubky" ELSE "Pubky"
        ELSE IF ~try_from_z32_ok(host) THEN "Icann" ELSE "Pubky"

\* ... a valid key after the reserved prefix is not told from a raw key.
classify_host_no_resolved(host) ==
    LET pk == strip_prefix(host, ReservedPrefix)
    IN  IF pk.some
        THEN IF is_pubky_prefixed(pk.rest) THEN "Icann" ELSE "Pubky"
        ELSE IF is_pubky_prefixed(host) \/ ~try_from_z32_ok(host) THEN "Icann"
             ELSE "Pubky"

\* ... is_ok() where is_err() was meant.
classify_host_is_ok(host) ==
    LET pk == strip_prefix(host, ReservedPrefix)
    IN  IF pk.some
        THEN IF is_pubky_prefixed(pk.rest) THEN "Icann"
             ELSE IF try_from_z32_ok(pk.rest) THEN "ResolvedPubky"
             ELSE "Pubky"
        ELSE IF is_pubky_prefixed(host) \/ try_from_z32_ok(host) THEN "Icann"
             ELSE "Pubky"

\* ... && where || was meant.
classify_host_and(host) ==
    LET pk == strip_prefix(host, ReservedPrefix)
    IN  IF pk.some
        THEN IF is_pubky_prefixed(pk.rest) THEN "Icann"
             ELSE IF try_from_z32_ok(pk.rest) THEN "ResolvedPubky"
             ELSE "Pubky"
        ELSE IF is_pubky_prefixed(host) /\ ~try_from_z32_ok(host) THEN "Icann"
             ELSE "Pubky"

\* ... a malformed rest after the reserved prefix is sent to Icann.
classify_host_no_fallback(host) ==
    LET pk == strip_prefix(host, ReservedPrefix)
    IN  IF pk.some
        THEN IF is_pubky_prefixed(pk.rest) THEN "Icann"
             ELSE IF try_from_z32_ok(pk.rest) THEN "ResolvedPubky"
             ELSE "Icann"
        ELSE IF is_pubky_prefixed(host) \/ ~try_from_z32_ok(host) THEN "Icann"
             ELSE "Pubky"

classify_host(host) ==
    LET pk == strip_prefix(host, ReservedPrefix)
    IN  IF pk.some
        THEN IF is_pubky_prefixed(pk.rest) THEN "Icann"
             ELSE IF try_from_z32_ok(pk.rest) THEN "ResolvedPubky"
             ELSE "Pubky"
        ELSE IF is_pubky_prefixed(host) \/ ~try_from_z32_ok(host) THEN "Icann"
             ELSE "Pubky"

(***************************************************************************)
(* PubkyHttpClient (native.rs:27-150)                                      *)
(***************************************************************************)
\* url.host_str(): the host of a URL that has one.
host_str(u) == [some |-> u.hasHost, val |-> u.host]

\* prepare_request without the display-form check behind the reserved
\* prefix.
prepare_request_unchecked_rest(u) ==
    LET host == IF u.hasHost THEN u.host ELSE <<>>
        st == strip_prefix(host, ReservedPrefix)
    IN  IF st.some
        THEN IF try_from_z32_ok(st.rest)
             THEN [tag |-> "Some", err |-> "", token |-> st.rest]
             ELSE [tag |-> "None", err |-> "", token |-> <<>>]
        ELSE IF is_pubky_prefixed(host)
             THEN [tag |-> "Err", err |-> "Validation", token |-> <<>>]
             ELSE IF try_from_z32_ok(host)
             THEN [tag |-> "Some", err |-> "", token |-> host]
             ELSE [tag |-> "None", err |-> "", token |-> <<>>]

\* PubkyHttpClient::prepare_request: Err(Validation), Ok(Some(token)) or
\* Ok(None), decided on url.host_str().unwrap_or("").
prepare_request(u) ==
    LET host == IF host_str(u).some THEN host_str(u).val ELSE <<>>
        st == strip_prefix(host, ReservedPrefix)
    IN  IF st.some
        THEN IF is_pubky_prefixed(st.rest)
             THEN [tag |-> "Err", err |-> "Validation", token |-> <<>>]
             ELSE IF try_from_z32_ok(st.rest)
             THEN [tag |-> "Some", err |-> "", token |-> st.rest]
             ELSE [tag |-> "None", err |-> "", token |-> <<>>]
        ELSE IF is_pubky_prefixed(host)
             THEN [tag |-> "Err", err |-> "Validation", token |-> <<>>]
             ELSE IF try_from_z32_ok(host)
             THEN [tag |-> "Some", err |-> "", token |-> host]
             ELSE [tag |-> "None", err |-> "", token |-> <<>>]

\* request with the arms of the match confused: a raw-key host leaves
\* through the CA-verified engine.
request_raw_key_via_icann(method, u) ==
    IF u.hasHost /\ classify_host(u.host) # "ResolvedPubky"
    THEN [engine |-> "icann_http", method |-> method, url |-> u]
    ELSE [engine |-> "http", method |-> method, url |-> u]

\* PubkyHttpClient::request: the RequestBuilder, as the engine that built it
\* and the method and URL it was handed.
request(method, u) ==
    LET host == host_str(u)
    IN  IF host.some
        THEN IF classify_host(host.val) = "ResolvedPubky"
             THEN [engine |-> "http", method |-> method, url |-> u]
             ELSE IF classify_host(host.val) = "Icann"
             THEN [engine |-> "icann_http", method |-> method, url |-> u]
             ELSE [engine |-> "http", method |-> method, url |-> u]
        ELSE [engine |-> "http", method |-> method, url |-> u]

\* PubkyHttpClient::cross_request: the preflight's error, or the builder.
cross_request(method, u) ==
    IF prepare_request(u).tag = "Err"
    THEN [tag |-> "Err", err |-> prepare_request(u).err]
    ELSE [tag |-> "Ok", builder |-> request(method, u)]

(***************************************************************************)
(* Inputs of the HTTP part                                                 *)
(***************************************************************************)
\* Characters hosts are built from: two z32 characters and the dot, which
\* is outside the z32 alphabet.
TailChars == {"y", "b", "."}

Tails == UNION {[1..n -> TailChars] : n \in 0..(KeyLen + 1)}

\* The digit of a z32 character.
Z32Digit(c) == CHOOSE d \in 0..(Len(Z32Chars) - 1) : Z32Chars[d + 1] = c

\* The key whose z32 form begins with the letters of the marker.
MarkerKey ==
    [i \in 1..KeyLen |->
        IF i <= Len(PubkyMarker) THEN Z32Digit(PubkyMarker[i]) ELSE 0]

\* The public keys of the model: every key over the digits of "y" and "b",
\* and the key that begins like the marker.
Keys == [1..KeyLen -> {Z32Digit("y"), Z32Digit("b")}] \cup {MarkerKey}

Hosts ==
    {p \o m \o t :
        p \in {<<>>, ReservedPrefix, ReservedPrefix \o ReservedPrefix},
        m \in {<<>>, PubkyMarker},
        t \in Tails}
    \cup {p \o to_string(MarkerKey) : p \in {<<>>, ReservedPrefix}}

Paths == {"/", "/pub/a"}

Methods == {"GET", "PUT"}

Urls ==
    {[hasHost |-> TRUE, host |-> h, path |-> "/"] : h \in Hosts}
    \cup {[hasHost |-> FALSE, host |-> <<>>, path |-> p] : p \in Paths}
    \cup {[hasHost |-> TRUE, host |-> <<>>, path |-> p] : p \in Paths}

NoOp == [op |-> "none"]

(***************************************************************************)
(* Actions of the HTTP part                                                *)
(***************************************************************************)
HttpInit ==
    /\ url \in Urls
    /\ last = NoOp

Classify ==
    /\ url.hasHost
    /\ last' = [op |-> "classify", kind |-> classify_host(url.host)]
    /\ UNCHANGED url
    /\ UNCHANGED <<sessVars, globVars, bufVars>>

PrepareRequest ==
    /\ last' = [op |-> "prepare", res |-> prepare_request(url)]
    /\ UNCHANGED url
    /\ UNCHANGED <<sessVars, globVars, bufVars>>

Request ==
    \E m \in Methods :
        /\ last' = [op |-> "request", method |-> m, builder |-> request(m, url)]
        /\ UNCHANGED url
        /\ UNCHANGED <<sessVars, globVars, bufVars>>

CrossRequest ==
    \E m \in Methods :
        /\ last' = [op |-> "cross", method |-> m, res |-> cross_request(m, url)]
        /\ UNCHANGED url
        /\ UNCHANGED <<sessVars, globVars, bufVars>>

HttpNext == Classify \/ PrepareRequest \/ Request \/ CrossRequest

(***************************************************************************)
(* Global instances (bindings/ffi/src/lib.rs, runtime.rs)                  *)
(*                                                                         *)
(* lib.rs keeps each shared instance in a Mutex<Option<..>>: a getter runs *)
(* wholly under the lock of its cell, so it is one step. runtime.rs keeps  *)
(* each in a OnceLock, whose closure runs in steps while other threads go  *)
(* on. A panic leaves an extern "C" function and aborts the process.       *)
(***************************************************************************)
\* The static Tokio runtimes: RUNTIME of runtime.rs (used by the handle
\* based entry points) and RUNTIME of lib.rs (used by the JSON entry points).
Runtimes == {"runtime.rs", "lib.rs"}

\* The global cells of lib.rs (a Mutex<Option<..>> each) and of runtime.rs
\* (a OnceLock each).
MutexCells ==
    {"PUBKY_INSTANCE", "PUBKY_TESTNET_INSTANCE", "HTTP_CLIENT_INSTANCE",
     "HTTP_CLIENT_TESTNET_INSTANCE"}
OnceCells == {"GLOBAL_PUBKY_CELL", "GLOBAL_PUBKY_TESTNET_CELL"}
Cells == MutexCells \cup OnceCells

\* The successful constructions of one cell's instance are counted up to
\* this number; the count names the instance the cell holds.
MaxBuilds == 2

\* No panic has aborted the process.
Alive == \A r \in Runtimes : runtime[r] # "aborted"

\* &*RUNTIME, RUNTIME.block_on: the static is built on first use, and
\* .expect panics when the build fails (runtime.rs:20-26, lib.rs:29-34).
force(r, built) ==
    IF runtime[r] = "uninit"
    THEN [runtime EXCEPT ![r] = IF built THEN "init" ELSE "aborted"]
    ELSE runtime

\* get_pubky, get_pubky_testnet, get_http_client, get_http_client_testnet
\* (lib.rs:55-102): under the lock, an empty cell is filled with a new
\* instance, or the error of its construction is returned and the cell
\* stays empty; then the instance in the cell is cloned.
get_instance(c, built) ==
    IF cells[c] # 0
    THEN [ok |-> TRUE, inst |-> cells[c], cells |-> cells]
    ELSE IF built
    THEN [ok |-> TRUE, inst |-> 1, cells |-> [cells EXCEPT ![c] = 1]]
    ELSE [ok |-> FALSE, inst |-> 0, cells |-> cells]

\* The cell of the Pubky instance, and of the HTTP client, of a network.
PubkyCellOf(testnet) ==
    IF testnet THEN "PUBKY_TESTNET_INSTANCE" ELSE "PUBKY_INSTANCE"
HttpCellOf(testnet) ==
    IF testnet THEN "HTTP_CLIENT_TESTNET_INSTANCE" ELSE "HTTP_CLIENT_INSTANCE"
OnceCellOf(testnet) ==
    IF testnet THEN "GLOBAL_PUBKY_TESTNET_CELL" ELSE "GLOBAL_PUBKY_CELL"

(***************************************************************************)
(* FFI HTTP entry points (bindings/ffi/src/lib.rs, bindings/ffi/src/       *)
(* client.rs, pubky-sdk-ffi/src/lib.rs)                                    *)
(*                                                                         *)
(* Each entry point takes the method and the URL as C strings, picks a     *)
(* reqwest Method, and sends the request through a client.                 *)
(***************************************************************************)
\* The letters method names are written with, in lower and in upper case.
LowerLetters ==
    <<"a", "c", "d", "e", "f", "g", "h", "i", "l", "n", "o", "p", "s", "t",
      "u">>

UpperLetters ==
    <<"A", "C", "D", "E", "F", "G", "H", "I", "L", "N", "O", "P", "S", "T",
      "U">>

\* str::to_uppercase: every lower-case letter becomes its upper-case letter,
\* every other character stays.
to_uppercase(s) ==
    [i \in 1..Len(s) |->
        IF \E j \in 1..Len(LowerLetters) : LowerLetters[j] = s[i]
        THEN UpperLetters[CHOOSE j \in 1..Len(LowerLetters) :
                              LowerLetters[j] = s[i]]
        ELSE s[i]]

\* The arms of the match on method_str.to_uppercase().as_str(): the text of
\* each arm and the reqwest Method it selects.
MethodArms ==
    {[text |-> <<"G", "E", "T">>, method |-> "GET"],
     [text |-> <<"P", "O", "S", "T">>, method |-> "POST"],
     [text |-> <<"P", "U", "T">>, method |-> "PUT"],
     [text |-> <<"D", "E", "L", "E", "T", "E">>, method |-> "DELETE"],
     [text |-> <<"P", "A", "T", "C", "H">>, method |-> "PATCH"],
     [text |-> <<"H", "E", "A", "D">>, method |-> "HEAD"],
     [text |-> <<"O", "P", "T", "I", "O", "N", "S">>, method |-> "OPTIONS"]}

\* The match with the arm `_ => return error(...)` (lib.rs:765-774,
\* client.rs:108-117).
parse_method(method_str) ==
    LET up == to_uppercase(method_str)
    IN  IF \E a \in MethodArms : a.text = up
        THEN [ok |-> TRUE,
              method |-> (CHOOSE a \in MethodArms : a.text = up).method]
        ELSE [ok |-> FALSE, method |-> "none"]

\* The match with the arm `_ => Method::GET` (pubky-sdk-ffi/src/lib.rs:
\* 159-168).
parse_method_or_get(method_str) ==
    LET up == to_uppercase(method_str)
    IN  IF \E a \in MethodArms : a.text = up
        THEN (CHOOSE a \in MethodArms : a.text = up).method
        ELSE "GET"

\* The method strings callers pass.
MethodTexts ==
    {<<"G", "E", "T">>, <<"g", "e", "t">>, <<"P", "u", "t">>,
     <<"F", "O", "O">>, <<>>}

\* A method argument: a C string that converts to a Rust string, or one
\* that does not (invalid UTF-8).
MethodArgs ==
    {[valid |-> TRUE, text |-> t] : t \in MethodTexts}
    \cup {[valid |-> FALSE, text |-> <<>>]}

\* A URL argument: a C string that does not convert, one that converts but
\* does not parse as a URL, or one that parses as the URL of the state.
UrlArgs == {"invalid", "unparsable", "parsed"}

\* What the network does with a request that was sent.
SendAnswers == {"ok", "failed"}

\* The keys in the URLs passed to the entry points: the keys of one repeated
\* digit and the key that begins like the marker.
FfiKeys == {K \in Keys : \A i \in 1..KeyLen : K[i] = K[1]} \cup {MarkerKey}

\* The hosts of the URLs passed to the entry points: the z32 and the display
\* form of these keys, and two hosts that are no key, each alone and behind
\* "_pubky.".
FfiHosts ==
    {p \o t :
        p \in {<<>>, ReservedPrefix},
        t \in {z32(K) : K \in FfiKeys} \cup {to_string(K) : K \in FfiKeys}
              \cup {<<>>, <<"y", ".", "b">>}}

FfiUrls ==
    {[hasHost |-> TRUE, host |-> h, path |-> "/"] : h \in FfiHosts}
    \cup {[hasHost |-> FALSE, host |-> <<>>, path |-> "/"]}

\* The outcome of one entry point call: whether a request went out, through
\* which engine and with which method, and the failure reported (code 0
\* where the entry point reports no code).
FfiHttpOutcome(entry, m, sent, engine, method, failed, code) ==
    [op |-> "ffi_http", entry |-> entry, arg |-> m, sent |-> sent,
     engine |-> engine, method |-> method, failed |-> failed, code |-> code]

\* pubky_http_request (bindings/ffi/src/lib.rs:742-836): the checks of the
\* method and the URL, then get_http_client or get_http_client_testnet; the
\* request is built by PubkyHttpClient::request inside RUNTIME.block_on;
\* failures are a JSON error text. The cell asked and the instance got
\* (0: none) are recorded with the outcome.
PubkyHttpRequest(m, u, testnet) ==
    LET c == HttpCellOf(testnet)
    IN  /\ Alive
        /\ IF ~m.valid \/ u = "invalid" \/ ~parse_method(m.text).ok
              \/ u = "unparsable"
           THEN /\ last' = FfiHttpOutcome("pubky_http_request", m, FALSE,
                                          "none", "none", TRUE, 0)
                            @@ [cell |-> c, inst |-> 0]
                /\ UNCHANGED globVars
           ELSE \E built \in BOOLEAN, rt \in BOOLEAN,
                   ans \in SendAnswers :
                  LET g == get_instance(c, built)
                      rb == request(parse_method(m.text).method, url)
                  IN  /\ cells' = g.cells
                      /\ runtime' = IF g.ok THEN force("lib.rs", rt)
                                    ELSE runtime
                      /\ last' =
                            (IF ~g.ok \/ runtime'["lib.rs"] = "aborted"
                             THEN FfiHttpOutcome("pubky_http_request", m,
                                                 FALSE, "none", "none",
                                                 TRUE, 0)
                             ELSE FfiHttpOutcome("pubky_http_request", m,
                                                 TRUE, rb.engine,
                                                 rb.method,
                                                 ans = "failed", 0))
                            @@ [cell |-> c, inst |-> g.inst]
        /\ UNCHANGED url
        /\ UNCHANGED <<sessVars, bufVars>>

\* http_request (pubky-sdk-ffi/src/lib.rs:149-192): the request is built by
\* PubkyHttpClient::request; failures are a null pointer.
HttpRequest ==
    \E m \in MethodArgs, u \in UrlArgs, ans \in SendAnswers :
        /\ last' =
              IF ~m.valid \/ u = "invalid" \/ u = "unparsable"
              THEN FfiHttpOutcome("http_request", m, FALSE, "none", "none",
                                  TRUE, 0)
              ELSE LET rb == request(parse_method_or_get(m.text), url)
                   IN  FfiHttpOutcome("http_request", m, TRUE, rb.engine,
                                      rb.method, ans = "failed", 0)
        /\ UNCHANGED url
        /\ UNCHANGED <<sessVars, globVars, bufVars>>

\* The entry points of client.rs: the three differ in the type of the
\* result only.
HttpClientEntries ==
    {"pubky_http_client_request", "pubky_http_client_request_bytes",
     "pubky_http_client_request_full"}

\* pubky_http_client_request, pubky_http_client_request_bytes,
\* pubky_http_client_request_full (client.rs:91-153, 168-236, 314-389): the
\* request is built by GLOBAL_CLIENT, a reqwest::blocking::Client with the
\* default (CA-verified) TLS configuration, whatever the host; a URL that
\* does not parse makes the send fail.
HttpClientRequest(entry) ==
    \E m \in MethodArgs, u \in UrlArgs, ans \in SendAnswers :
        /\ last' =
              IF ~m.valid \/ u = "invalid" \/ ~parse_method(m.text).ok
              THEN FfiHttpOutcome(entry, m, FALSE, "none", "none", TRUE, -1)
              ELSE IF u = "unparsable"
              THEN FfiHttpOutcome(entry, m, FALSE, "none", "none", TRUE, 1)
              ELSE FfiHttpOutcome(entry, m, TRUE, "global_client",
                                  parse_method(m.text).method,
                                  ans = "failed",
                                  IF ans = "failed" THEN 1 ELSE 0)
        /\ UNCHANGED url
        /\ UNCHANGED <<sessVars, globVars, bufVars>>

FfiHttpNext ==
    \/ \E m \in MethodArgs, u \in UrlArgs, testnet \in BOOLEAN :
          PubkyHttpRequest(m, u, testnet)
    \/ HttpRequest
    \/ \E entry \in HttpClientEntries : HttpClientRequest(entry)

(***************************************************************************)
(* FFI session handles (bindings/ffi/src/session.rs)                       *)
(*                                                                         *)
(* A handle is the address of a Box<FfiSession>. The caller keeps the      *)
(* address after the box is released; nothing in the handle records that.  *)
(* Up to NumThreads caller threads may be inside FFI calls at once. The    *)
(* threads are interchangeable, so the state holds the bag of the calls    *)
(* that are waiting inside block_on, not which thread makes which.         *)
(***************************************************************************)
NumSessions == 1
NumThreads == 2

Sessions == 1..NumSessions
NULL == 0

\* The releases of one box are counted up to this number ("or more").
MaxReleases == 2

\* What a read of, or a second release of, released memory may produce.
UBOutcomes == {"stale_success", "crash"}

NoCall == [op |-> "none"]

\* The variants of pubky::Error (error.rs:54-58), each with the kind of
\* failure it stands for. RequestError::Validation is a pubky::Error::Request
\* (native.rs:72-76).
PubkyErrors ==
    {[variant |-> "Request", kind |-> "network"],
     [variant |-> "Request", kind |-> "validation"],
     [variant |-> "Pkarr", kind |-> "resolution"],
     [variant |-> "Parse", kind |-> "parse"],
     [variant |-> "Authentication", kind |-> "authentication"],
     [variant |-> "Build", kind |-> "build"]}

\* FfiResult::from_pubky_error: the code of each variant (error.rs:52-61).
from_pubky_error(err) ==
    CASE err.variant = "Request" -> 1
      [] err.variant = "Pkarr" -> 2
      [] err.variant = "Parse" -> 3
      [] err.variant = "Authentication" -> 4
      [] err.variant = "Build" -> 5

\* A path is the sequence of its segments: "/pub/a" is <<"pub", "a">>. The
\* scope of a capability is a directory: "/pub/" is <<"pub">>, "/" is <<>>.
StoragePaths == {<<"pub", "a">>, <<"priv", "a">>}

\* A capability: a scope and the permission flags, "r", "w" or "rw".
Cap(scope, flags) == [scope |-> scope, flags |-> flags]

\* The capability sets a homeserver may grant: none, the root, one
\* directory, and two directories with different permissions.
CapSets ==
    {<<>>,
     <<Cap(<<>>, <<"r", "w">>)>>,
     <<Cap(<<"pub">>, <<"r", "w">>)>>,
     <<Cap(<<"pub">>, <<"r">>), Cap(<<"priv">>, <<"w">>)>>}

\* The text of a scope after the leading "/": every segment and its "/".
RECURSIVE scope_text(_)
scope_text(scope) ==
    IF scope = <<>> THEN <<>>
    ELSE <<Head(scope), "/">> \o scope_text(Tail(scope))

\* Display for Capability: "<path>:<flags>".
cap_to_string(c) == <<"/">> \o scope_text(c.scope) \o <<":">> \o c.flags

\* [String]::join(sep)
RECURSIVE join(_, _)
join(strs, sep) ==
    IF strs = <<>> THEN <<>>
    ELSE IF Len(strs) = 1 THEN strs[1]
    ELSE strs[1] \o <<sep>> \o join(Tail(strs), sep)

\* caps.iter().map(|c| c.to_string()).collect() joined by "," (session.rs:
\* 41-43).
caps_str(cs) == join([i \in 1..Len(cs) |-> cap_to_string(cs[i])], ",")

\* An object the homeserver does not hold.
Absent == "absent"

\* The handles a caller can hold: null, or an address some signin returned.
Held == {NULL} \cup {h \in Sessions : heap[h] # "unalloc"}

\* Some caller thread is outside any call and can make one.
ThreadFree == BagCardinality(inflight) < NumThreads

\* Box::into_raw(Box::new(..)): the address of the new box. Addresses are
\* interchangeable, so the allocator is taken to hand out the lowest free
\* one; there is none when every address is in use.
NewBox ==
    {h \in Sessions :
        /\ heap[h] = "unalloc"
        /\ \A g \in Sessions : heap[g] = "unalloc" => h <= g}

\* (*session).0 : the outcomes of dereferencing the handle.
Deref(h) == IF heap[h] = "live" THEN {"ok"} ELSE UBOutcomes

\* Box::from_raw(session) followed by a move or drop: the box is released.
\* Releasing a box that is already released is a double free.
BoxFromRaw(h, by) ==
    /\ heap' = [heap EXCEPT ![h] = IF heap[h] = "live" THEN by ELSE @]
    /\ releases' =
          [releases EXCEPT ![h] = IF @ < MaxReleases THEN @ + 1 ELSE @]

\* A call returns: it is recorded with its outcome, its result code, the
\* state in which it found the box, and whether it began after a signout on
\* the handle had returned.
Return(op, h, outcome, code, box, after) ==
    done' = [op |-> op, h |-> h, outcome |-> outcome,
             code |-> code, box |-> box, after |-> after]

\* A call returns with data: the payload of a success, or the homeserver's
\* answer the outcome was made from.
ReturnData(op, h, outcome, code, box, after, data) ==
    done' = [op |-> op, h |-> h, outcome |-> outcome,
             code |-> code, box |-> box, after |-> after, data |-> data]

\* A call has used the handle and now waits for the homeserver's answer.
Await(op, h) ==
    /\ inflight' = inflight (+) SetToBag({[op |-> op, h |-> h,
                                           box |-> heap[h],
                                           after |-> signedOut[h]]})
    /\ UNCHANGED done

\* The homeserver's answer arrives for the waiting call c.
Resume(c) == inflight' = inflight (-) SetToBag({c})

\* The buffers (CString::into_raw, Box::into_raw of a byte slice) the
\* library can hand out before the allocator is exhausted.
NumBufs == 4
Addrs == 1..NumBufs

\* The caller holds no result structure.
NoResult == [type |-> "none"]

\* No runtime is built, every cell is empty, no buffer is handed out.
LibInit ==
    /\ runtime = [r \in Runtimes |-> "uninit"]
    /\ cells = [c \in Cells |-> 0]
    /\ bufs = [a \in Addrs |-> "unalloc"]
    /\ held = NoResult

\* No handle exists yet, the caller's session_out cell holds null, and the
\* user has no object on the homeserver.
HandlesInit ==
    /\ LibInit
    /\ revoked = [h \in Sessions |-> FALSE]
    /\ heap = [h \in Sessions |-> "unalloc"]
    /\ releases = [h \in Sessions |-> 0]
    /\ signedOut = [h \in Sessions |-> FALSE]
    /\ inflight = EmptyBag
    /\ done = NoCall
    /\ sessionOut = NULL
    /\ caps = [h \in Sessions |-> <<>>]
    /\ storage = [h \in Sessions |-> "unalloc"]
    /\ public = "unalloc"
    /\ store = [p \in StoragePaths |-> Absent]
    /\ written = [p \in StoragePaths |-> "none"]

\* The homeserver grants the root capability.
SessInit ==
    /\ HandlesInit
    /\ granted = <<Cap(<<>>, <<"r", "w">>)>>

\* pubky_signer_signin / pubky_signer_signup: a new box on success, null on
\* failure (signer.rs:38-55, 94-105).
SignerSignin ==
    /\ ThreadFree
    /\ \/ \E h \in NewBox :
            /\ heap' = [heap EXCEPT ![h] = "live"]
            /\ caps' = [caps EXCEPT ![h] = granted]
            /\ Return("signin", h, "ok", 0, "live", FALSE)
       \/ /\ Return("signin", NULL, "error", 0, "none", FALSE)
          /\ UNCHANGED <<heap, caps>>
    /\ UNCHANGED <<releases, signedOut, inflight>>
    /\ UNCHANGED <<httpVars, globVars, bufVars, revoked>>
    /\ UNCHANGED <<sessionOut, granted, storVars>>

\* The signin calls that return an FfiResult and write the handle to
\* *session_out.
WithResultOps == {"signup_with_result", "signin_with_result"}

\* The errors of signer.signup / signer.signin.
SigninErrors ==
    {e \in PubkyErrors : e.kind \in {"network", "parse", "authentication"}}

SignerSigninWithResult_writes_on_error(op) ==
    /\ ThreadFree
    /\ \/ /\ Return(op, NULL, "null_error", -1, "none", FALSE)
          /\ UNCHANGED <<heap, caps, sessionOut>>
       \/ \E h \in NewBox :
            /\ heap' = [heap EXCEPT ![h] = "live"]
            /\ caps' = [caps EXCEPT ![h] = granted]
            /\ sessionOut' = h
            /\ Return(op, h, "ok", 0, "live", FALSE)
       \/ \E e \in SigninErrors :
            /\ Return(op, NULL, "error", from_pubky_error(e), "none", FALSE)
            /\ sessionOut' = NULL
            /\ UNCHANGED <<heap, caps>>
    /\ UNCHANGED <<releases, signedOut, inflight>>
    /\ UNCHANGED <<httpVars, globVars, bufVars, revoked>>
    /\ UNCHANGED <<granted, storVars>>

\* pubky_signer_signup_with_result, pubky_signer_signin_with_result: the
\* null check of signer, homeserver and session_out, then block_on of the
\* signup or signin; Ok writes the new box to *session_out, Err returns the
\* error's code (signer.rs:64-85, 113-130).
SignerSigninWithResult(op) ==
    /\ ThreadFree
    /\ \/ /\ Return(op, NULL, "null_error", -1, "none", FALSE)
          /\ UNCHANGED <<heap, caps, sessionOut>>
       \/ \E h \in NewBox :
            /\ heap' = [heap EXCEPT ![h] = "live"]
            /\ caps' = [caps EXCEPT ![h] = granted]
            /\ sessionOut' = h
            /\ Return(op, h, "ok", 0, "live", FALSE)
       \/ \E e \in SigninErrors :
            /\ Return(op, NULL, "error", from_pubky_error(e), "none", FALSE)
            /\ UNCHANGED <<heap, caps, sessionOut>>
    /\ UNCHANGED <<releases, signedOut, inflight>>
    /\ UNCHANGED <<httpVars, globVars, bufVars, revoked>>
    /\ UNCHANGED <<granted, storVars>>

\* pubky_session_public_key, pubky_session_capabilities,
\* pubky_session_storage: the null check, then &(*session).0 and the read of
\* session.info() / session.storage() (session.rs:20-62). The handle is the
\* call's only access to shared state, so the call is one step.
ReadOps == {"public_key", "capabilities", "storage"}

\* The two that read session.info() and create nothing.
InfoOps == {"public_key", "capabilities"}

SessionRead(op, h) ==
    /\ ThreadFree
    /\ IF h = NULL
       THEN Return(op, h, "null_error",
                   IF op = "capabilities" THEN -1 ELSE 0, "none", FALSE)
       ELSE \E o \in Deref(h) :
               IF op = "capabilities" /\ o = "ok"
               THEN ReturnData(op, h, o, 0, heap[h], signedOut[h],
                               caps_str(caps[h]))
               ELSE Return(op, h, o, 0, heap[h], signedOut[h])
    /\ storage' = IF op = "storage" /\ h # NULL /\ heap[h] = "live"
                  THEN [storage EXCEPT ![h] = "live"]
                  ELSE storage
    /\ UNCHANGED <<heap, releases, signedOut, inflight>>
    /\ UNCHANGED <<httpVars, globVars, bufVars, revoked>>
    /\ UNCHANGED <<sessionOut, granted, caps, public, store,
                   written>>

\* pubky_session_revalidate: the null check, then let session =
\* &(*session).0 and the request goes out (session.rs:93-99).
SessionRevalidateCall(h) ==
    /\ ThreadFree
    /\ IF h = NULL
       THEN /\ Return("revalidate", h, "null_error", -1, "none", FALSE)
            /\ UNCHANGED inflight
       ELSE Await("revalidate", h)
    /\ UNCHANGED <<heap, releases, signedOut>>
    /\ UNCHANGED <<httpVars, globVars, bufVars, revoked>>
    /\ UNCHANGED <<sessionOut, granted, caps, storVars>>

\* The homeserver's answer to a revalidate request: it still accepts the
\* session (Ok(Some)), it has expired it (Ok(None)), or the request failed.
RevalidateAnswers == {"accepted", "expired", "failed"}

SessionRevalidateReturn_expired_is_error(c) ==
    /\ c.op = "revalidate"
    /\ Resume(c)
    /\ LET box == IF c.box = "live" THEN heap[c.h] ELSE c.box
       IN  IF box = "live"
           THEN \E ans \in RevalidateAnswers :
                    ReturnData("revalidate", c.h,
                               CASE ans = "accepted" -> "valid"
                                 [] ans = "expired" -> "error"
                                 [] OTHER -> "error",
                               IF ans = "accepted" THEN 0 ELSE 1,
                               box, c.after, ans)
           ELSE \E o \in UBOutcomes :
                    Return("revalidate", c.h, o, 0, box, c.after)
    /\ UNCHANGED <<heap, releases, signedOut>>
    /\ UNCHANGED <<httpVars, globVars, bufVars, revoked>>
    /\ UNCHANGED <<sessionOut, granted, caps, storVars>>

SessionRevalidateReturn_takes_server_caps(c) ==
    /\ c.op = "revalidate"
    /\ Resume(c)
    /\ LET box == IF c.box = "live" THEN heap[c.h] ELSE c.box
       IN  IF box = "live"
           THEN \E ans \in RevalidateAnswers :
                    ReturnData("revalidate", c.h,
                               CASE ans = "accepted" -> "valid"
                                 [] ans = "expired" -> "invalid"
                                 [] OTHER -> "error",
                               IF ans = "failed" THEN 1 ELSE 0,
                               box, c.after, ans)
           ELSE \E o \in UBOutcomes :
                    Return("revalidate", c.h, o, 0, box, c.after)
    /\ UNCHANGED <<heap, releases, signedOut>>
    /\ caps' = [caps EXCEPT ![c.h] = <<Cap(<<>>, <<"r", "w">>)>>]
    /\ UNCHANGED <<httpVars, globVars, bufVars, revoked>>
    /\ UNCHANGED <<sessionOut, granted, storVars>>

\* block_on(session.revalidate()) completes; the borrowed session is used
\* until then (session.rs:99-103).
SessionRevalidateReturn(c) ==
    /\ c.op = "revalidate"
    /\ Resume(c)
    /\ LET box == IF c.box = "live" THEN heap[c.h] ELSE c.box
       IN  IF box = "live"
           THEN \E ans \in RevalidateAnswers :
                    ReturnData("revalidate", c.h,
                               CASE ans = "accepted" -> "valid"
                                 [] ans = "expired" -> "invalid"
                                 [] OTHER -> "error",
                               IF ans = "failed" THEN 1 ELSE 0,
                               box, c.after, ans)
           ELSE \E o \in UBOutcomes :
                    Return("revalidate", c.h, o, 0, box, c.after)
    /\ UNCHANGED <<heap, releases, signedOut>>
    /\ UNCHANGED <<httpVars, globVars, bufVars, revoked>>
    /\ UNCHANGED <<sessionOut, granted, caps, storVars>>

\* pubky_session_signout: the null check, then let session =
\* Box::from_raw(session); let inner_session = session.0; and the signout
\* request goes out (session.rs:72-80).
SessionSignoutCall(h) ==
    /\ ThreadFree
    /\ IF h = NULL
       THEN /\ Return("signout", h, "null_error", -1, "none", FALSE)
            /\ UNCHANGED <<heap, releases, inflight>>
       ELSE /\ BoxFromRaw(h, "signout")
            /\ Await("signout", h)
    /\ UNCHANGED signedOut
    /\ UNCHANGED <<httpVars, globVars, bufVars, revoked>>
    /\ UNCHANGED <<sessionOut, granted, caps, storVars>>

\* The homeserver's answer to a signout request: it has invalidated the
\* session, or the request failed.
SignoutAnswers == {"ok", "failed"}

SessionSignoutReturn_keeps_session_on_error(c) ==
    /\ c.op = "signout"
    /\ Resume(c)
    /\ IF c.box = "live"
       THEN \E ans \in SignoutAnswers :
               /\ Return("signout", c.h,
                         IF ans = "ok" THEN "ok" ELSE "error",
                         IF ans = "ok" THEN 0 ELSE 1,
                         "live", c.after)
               /\ revoked' = [revoked EXCEPT ![c.h] = @ \/ ans = "ok"]
               /\ signedOut' = [signedOut EXCEPT ![c.h] = @ \/ ans = "ok"]
               /\ heap' = IF ans = "ok" THEN heap
                          ELSE [heap EXCEPT ![c.h] = "live"]
               /\ releases' = IF ans = "ok" THEN releases
                              ELSE [releases EXCEPT ![c.h] = 0]
       ELSE /\ \E o \in UBOutcomes :
                  Return("signout", c.h, o, 0, c.box, c.after)
            /\ signedOut' = [signedOut EXCEPT ![c.h] = TRUE]
            /\ UNCHANGED <<revoked, heap, releases>>
    /\ UNCHANGED <<httpVars, globVars, bufVars>>
    /\ UNCHANGED <<sessionOut, granted, caps, storVars>>

\* block_on(inner_session.signout()) completes; the session is dropped in
\* both arms (session.rs:80-83).
SessionSignoutReturn(c) ==
    /\ c.op = "signout"
    /\ Resume(c)
    /\ signedOut' = [signedOut EXCEPT ![c.h] = TRUE]
    /\ IF c.box = "live"
       THEN \E ans \in SignoutAnswers :
               /\ Return("signout", c.h,
                         IF ans = "ok" THEN "ok" ELSE "error",
                         IF ans = "ok" THEN 0 ELSE 1,
                         "live", c.after)
               /\ revoked' = [revoked EXCEPT ![c.h] = @ \/ ans = "ok"]
       ELSE /\ \E o \in UBOutcomes :
                  Return("signout", c.h, o, 0, c.box, c.after)
            /\ UNCHANGED revoked
    /\ UNCHANGED <<heap, releases>>
    /\ UNCHANGED <<httpVars, globVars, bufVars>>
    /\ UNCHANGED <<sessionOut, granted, caps, storVars>>

SessionFree_releases_storage(h) ==
    /\ ThreadFree
    /\ IF h = NULL
       THEN /\ Return("free", h, "null_noop", 0, "none", FALSE)
            /\ UNCHANGED <<heap, releases, storage>>
       ELSE /\ BoxFromRaw(h, "freed")
            /\ \E o \in Deref(h) :
                  Return("free", h, o, 0, heap[h], signedOut[h])
            /\ storage' = [storage EXCEPT ![h] =
                              IF @ = "live" THEN "freed" ELSE @]
    /\ UNCHANGED <<signedOut, inflight>>
    /\ UNCHANGED <<httpVars, globVars, bufVars, revoked>>
    /\ UNCHANGED <<sessionOut, granted, caps, public, store, written>>

\* pubky_session_free: if !session.is_null() { drop(Box::from_raw(session)) }
\* (session.rs:111-115).
SessionFree(h) ==
    /\ ThreadFree
    /\ IF h = NULL
       THEN /\ Return("free", h, "null_noop", 0, "none", FALSE)
            /\ UNCHANGED <<heap, releases>>
       ELSE /\ BoxFromRaw(h, "freed")
            /\ \E o \in Deref(h) :
                  Return("free", h, o, 0, heap[h], signedOut[h])
    /\ UNCHANGED <<signedOut, inflight>>
    /\ UNCHANGED <<httpVars, globVars, bufVars, revoked>>
    /\ UNCHANGED <<sessionOut, granted, caps, storVars>>

(***************************************************************************)
(* Result structures and their buffers (bindings/ffi/src/error.rs,         *)
(* client.rs, lib.rs)                                                      *)
(*                                                                         *)
(* A result structure is returned by value; its pointer fields are null or *)
(* the address of a buffer the library allocated. The caller holds one     *)
(* result at a time and hands it to the free function of its type.         *)
(***************************************************************************)
\* The pointer of an empty boxed slice: not null, and no allocation.
Dangling == NumBufs + 1

\* The addresses the allocator can hand out: those not in the caller's hands.
FreeAddrs(b) == {a \in Addrs : b[a] # "owned"}

\* CString::into_raw, Box::into_raw: the address of the new buffer; the
\* allocator is taken to hand out the lowest free one.
Alloc(b) == CHOOSE a \in FreeAddrs(b) : \A x \in FreeAddrs(b) : a <= x

\* The buffer at a is in the caller's hands.
Own(b, a) == [b EXCEPT ![a] = "owned"]

\* if !ptr.is_null() { drop(CString::from_raw(ptr)) }: the buffer is
\* released; releasing a buffer that is not owned is a double free.
Release(b, ptr) ==
    IF ptr = NULL THEN b
    ELSE [b EXCEPT ![ptr] = IF @ = "owned" THEN "released" ELSE "double"]

\* if !ptr.is_null() { Box::from_raw(slice::from_raw_parts_mut(ptr, len)) }:
\* dropping an empty boxed slice deallocates nothing.
ReleaseBytes(b, ptr, len) ==
    IF ptr = NULL \/ len = 0 THEN b ELSE Release(b, ptr)

\* A result structure: the fields of FfiResult (data, error, code), of
\* FfiBytesResult (data, len, error, code) and of FfiHttpResponse (status,
\* body, headers, error, code); a field the type has not is null or 0.
Res(type, data, len, status, body, headers, error, code) ==
    [type |-> type, data |-> data, len |-> len, status |-> status,
     body |-> body, headers |-> headers, error |-> error, code |-> code]

\* FfiResult::success (error.rs:22-29).
FfiResult_success(b) ==
    [res |-> Res("FfiResult", Alloc(b), 0, 0, NULL, NULL, NULL, 0),
     bufs |-> Own(b, Alloc(b))]

\* FfiResult::success_empty (error.rs:32-38).
FfiResult_success_empty(b) ==
    [res |-> Res("FfiResult", NULL, 0, 0, NULL, NULL, NULL, 0), bufs |-> b]

\* FfiResult::error (error.rs:41-49).
FfiResult_error(b, code) ==
    [res |-> Res("FfiResult", NULL, 0, 0, NULL, NULL, Alloc(b), code),
     bufs |-> Own(b, Alloc(b))]

\* FfiResult::from_pubky_error (error.rs:52-61).
FfiResult_from_pubky_error(b, err) == FfiResult_error(b, from_pubky_error(err))

\* FfiBytesResult::success (error.rs:83-93): data.into_boxed_slice().
FfiBytesResult_success(b, len) ==
    IF len = 0
    THEN [res |-> Res("FfiBytesResult", Dangling, 0, 0, NULL, NULL, NULL, 0),
          bufs |-> b]
    ELSE [res |-> Res("FfiBytesResult", Alloc(b), len, 0, NULL, NULL, NULL,
                      0),
          bufs |-> Own(b, Alloc(b))]

FfiBytesResult_error_keeps_len(b, code) ==
    [res |-> Res("FfiBytesResult", NULL, 1, 0, NULL, NULL, Alloc(b), code),
     bufs |-> Own(b, Alloc(b))]

\* FfiBytesResult::error (error.rs:96-105).
FfiBytesResult_error(b, code) ==
    [res |-> Res("FfiBytesResult", NULL, 0, 0, NULL, NULL, Alloc(b), code),
     bufs |-> Own(b, Alloc(b))]

\* FfiHttpResponse::success (client.rs:255-267): the body, then the headers.
FfiHttpResponse_success(b, status) ==
    LET body == Alloc(b)
        headers == Alloc(Own(b, body))
    IN  [res |-> Res("FfiHttpResponse", NULL, 0, status, body, headers, NULL,
                     0),
         bufs |-> Own(Own(b, body), headers)]

\* FfiHttpResponse::error (client.rs:270-281).
FfiHttpResponse_error(b, code) ==
    [res |-> Res("FfiHttpResponse", NULL, 0, 0, NULL, NULL, Alloc(b), code),
     bufs |-> Own(b, Alloc(b))]

\* string_to_c (lib.rs:133-146): the JSON text of a response as a C string.
string_to_c(b) ==
    [res |-> Res("string", Alloc(b), 0, 0, NULL, NULL, NULL, 0),
     bufs |-> Own(b, Alloc(b))]

\* The codes the entry points pass to the error constructors: -1 for a null
\* or invalid argument, 1 for a failed request or conversion.
CallSiteCodes == {-1, 1}

\* The lengths of the byte payloads and the statuses of the HTTP responses.
ByteLens == {0, 1, 2}
Statuses == {200, 404}

\* The frame of the steps of this part.
ResultFrame ==
    /\ UNCHANGED <<heap, releases, signedOut, inflight, sessionOut, granted,
                   caps, revoked, storVars>>
    /\ UNCHANGED <<httpVars, globVars>>

\* An entry point builds the result r and returns it; the caller has
\* released the result it held before.
Hand(op, r) ==
    /\ held = NoResult
    /\ Cardinality(FreeAddrs(bufs)) >= 2
    /\ held' = r.res
    /\ bufs' = r.bufs
    /\ done' = [op |-> op, ptr |-> NULL]
    /\ ResultFrame

pubky_result_free_skips_error ==
    /\ held # NoResult
    /\ held.type = "FfiResult"
    /\ bufs' = Release(bufs, held.data)
    /\ held' = NoResult
    /\ done' = [op |-> "pubky_result_free", ptr |-> NULL]
    /\ ResultFrame

\* pubky_result_free (error.rs:138-145).
pubky_result_free ==
    /\ held # NoResult
    /\ held.type = "FfiResult"
    /\ bufs' = Release(Release(bufs, held.data), held.error)
    /\ held' = NoResult
    /\ done' = [op |-> "pubky_result_free", ptr |-> NULL]
    /\ ResultFrame

\* pubky_bytes_result_free (error.rs:152-160).
pubky_bytes_result_free ==
    /\ held # NoResult
    /\ held.type = "FfiBytesResult"
    /\ bufs' = Release(ReleaseBytes(bufs, held.data, held.len), held.error)
    /\ held' = NoResult
    /\ done' = [op |-> "pubky_bytes_result_free", ptr |-> NULL]
    /\ ResultFrame

\* pubky_http_response_free (client.rs:287-298).
pubky_http_response_free ==
    /\ held # NoResult
    /\ held.type = "FfiHttpResponse"
    /\ bufs' = Release(Release(Release(bufs, held.body), held.headers),
                       held.error)
    /\ held' = NoResult
    /\ done' = [op |-> "pubky_http_response_free", ptr |-> NULL]
    /\ ResultFrame

\* The pointers a caller passes to pubky_string_free: null, or the string it
\* holds.
StringPtrs ==
    {NULL} \cup (IF held # NoResult /\ held.type = "string"
                 THEN {held.data} ELSE {})

\* pubky_string_free (error.rs:113-117, lib.rs:186-191).
pubky_string_free(ptr) ==
    /\ bufs' = Release(bufs, ptr)
    /\ held' = IF ptr = NULL THEN held ELSE NoResult
    /\ done' = [op |-> "pubky_string_free", ptr |-> ptr]
    /\ ResultFrame

\* The pointers a caller passes to pubky_bytes_free: null, or the data of
\* the successful FfiBytesResult it holds, which has no other buffer.
BytesPtrs ==
    {NULL} \cup (IF /\ held # NoResult
                    /\ held.type = "FfiBytesResult"
                    /\ held.error = NULL
                 THEN {held.data} ELSE {})

\* pubky_bytes_free (error.rs:126-131).
pubky_bytes_free(ptr, len) ==
    /\ bufs' = ReleaseBytes(bufs, ptr, len)
    /\ held' = IF ptr = NULL THEN held ELSE NoResult
    /\ done' = [op |-> "pubky_bytes_free", ptr |-> ptr]
    /\ ResultFrame

\* The entry points return results of every constructor, and the caller
\* releases what it holds.
ResultNext ==
    \/ Hand("FfiResult::success", FfiResult_success(bufs))
    \/ Hand("FfiResult::success_empty", FfiResult_success_empty(bufs))
    \/ \E code \in CallSiteCodes :
            Hand("FfiResult::error", FfiResult_error(bufs, code))
    \/ \E err \in PubkyErrors :
            Hand("FfiResult::from_pubky_error",
                 FfiResult_from_pubky_error(bufs, err))
    \/ \E len \in ByteLens :
            Hand("FfiBytesResult::success", FfiBytesResult_success(bufs, len))
    \/ \E code \in CallSiteCodes :
            Hand("FfiBytesResult::error", FfiBytesResult_error(bufs, code))
    \/ \E status \in Statuses :
            Hand("FfiHttpResponse::success",
                 FfiHttpResponse_success(bufs, status))
    \/ \E code \in CallSiteCodes :
            Hand("FfiHttpResponse::error", FfiHttpResponse_error(bufs, code))
    \/ Hand("string_to_c", string_to_c(bufs))
    \/ pubky_result_free
    \/ pubky_bytes_result_free
    \/ pubky_http_response_free
    \/ \E ptr \in StringPtrs : pubky_string_free(ptr)
    \/ \E ptr \in BytesPtrs :
            pubky_bytes_free(ptr, IF ptr = NULL THEN 0 ELSE held.len)

(***************************************************************************)
(* Entry points on the global instances (bindings/ffi/src/lib.rs,          *)
(* runtime.rs, pubky.rs)                                                   *)
(***************************************************************************)
\* The digits hex::decode accepts, in the order of their values.
HexLower ==
    <<"0", "1", "2", "3", "4", "5", "6", "7", "8", "9", "a", "b", "c", "d",
      "e", "f">>
HexUpper == <<"A", "B", "C", "D", "E", "F">>

\* The value of a hex digit, -1 for any other character.
hex_val(c) ==
    IF \E i \in 1..Len(HexLower) : HexLower[i] = c
    THEN (CHOOSE i \in 1..Len(HexLower) : HexLower[i] = c) - 1
    ELSE IF \E i \in 1..Len(HexUpper) : HexUpper[i] = c
    THEN (CHOOSE i \in 1..Len(HexUpper) : HexUpper[i] = c) + 9
    ELSE -1

\* hex::decode: an odd length and a character that is no hex digit are
\* errors; else every two digits are one byte.
hex_decode(s) ==
    IF Len(s) % 2 # 0 \/ \E i \in 1..Len(s) : hex_val(s[i]) = -1
    THEN [ok |-> FALSE, bytes |-> <<>>]
    ELSE [ok |-> TRUE,
          bytes |-> [i \in 1..(Len(s) \div 2) |->
                        16 * hex_val(s[2 * i - 1]) + hex_val(s[2 * i])]]

\* The length of a secret key in bytes. The real length is 32; the model
\* scales it down.
SecretLen == 2

\* The hex text of n bytes 0x0f.
HexText(n) == [i \in 1..(2 * n) |-> IF i % 2 = 1 THEN "0" ELSE "f"]

\* The secret key strings callers pass: a key, a key one byte short and one
\* byte long, a text of odd length, and a text with a character that is no
\* hex digit.
SecretTexts ==
    {HexText(SecretLen), HexText(SecretLen - 1), HexText(SecretLen + 1),
     Tail(HexText(SecretLen)), [HexText(SecretLen) EXCEPT ![1] = "g"]}

\* A secret key argument: a C string that converts to a Rust string, or a
\* pointer that is null or no valid UTF-8.
SecretArgs ==
    {[valid |-> TRUE, text |-> t] : t \in SecretTexts}
    \cup {[valid |-> FALSE, text |-> <<>>]}

\* The other string argument of a call (the homeserver key, the public key,
\* the path): the text of a key, a text that is no key, or a pointer that is
\* null or no valid UTF-8.
OtherArgs ==
    {[valid |-> TRUE, text |-> z32(MarkerKey)],
     [valid |-> TRUE, text |-> <<"y", ".", "b">>],
     [valid |-> FALSE, text |-> <<>>]}

\* The entry points of lib.rs that take a secret key, and those that take a
\* path, with pubky_resolve_homeserver.
SecretOps ==
    {"pubky_signup", "pubky_signin", "pubky_put", "pubky_get",
     "pubky_delete"}
PathOps == {"pubky_put", "pubky_get", "pubky_delete"}
JsonOps == SecretOps \cup {"pubky_resolve_homeserver"}

validate_any_length(op, secret, other) ==
    IF op = "pubky_resolve_homeserver"
    THEN IF ~other.valid THEN "Invalid public key"
         ELSE IF ~try_from_z32_ok(other.text) THEN "Invalid public key: e"
         ELSE "ok"
    ELSE IF ~secret.valid THEN "Invalid secret key"
    ELSE IF op = "pubky_signup" /\ ~other.valid
    THEN "Invalid homeserver public key"
    ELSE IF op \in PathOps /\ ~other.valid THEN "Invalid path"
    ELSE IF ~hex_decode(secret.text).ok
    THEN "Invalid hex encoding for secret key"
    ELSE IF op = "pubky_signup" /\ ~try_from_z32_ok(other.text)
    THEN "Invalid homeserver public key: e"
    ELSE "ok"

\* The checks an entry point makes before it asks for the shared instance,
\* in the order of the code: the conversion of the C strings, hex::decode,
\* the length of the key, PublicKey::try_from (lib.rs:279-305, 356-368,
\* 419-441, 490-508, 557-575, 860-868). The result is "ok" or the message
\* of the error response.
validate(op, secret, other) ==
    IF op = "pubky_resolve_homeserver"
    THEN IF ~other.valid THEN "Invalid public key"
         ELSE IF ~try_from_z32_ok(other.text) THEN "Invalid public key: e"
         ELSE "ok"
    ELSE IF ~secret.valid THEN "Invalid secret key"
    ELSE IF op = "pubky_signup" /\ ~other.valid
    THEN "Invalid homeserver public key"
    ELSE IF op \in PathOps /\ ~other.valid THEN "Invalid path"
    ELSE IF ~hex_decode(secret.text).ok
    THEN "Invalid hex encoding for secret key"
    ELSE IF Len(hex_decode(secret.text).bytes) # SecretLen
    THEN "Secret key must be exactly 32 bytes"
    ELSE IF op = "pubky_signup" /\ ~try_from_z32_ok(other.text)
    THEN "Invalid homeserver public key: e"
    ELSE "ok"

\* What the network makes of the request of a call: the signup, signin or
\* storage request succeeds or fails; the resolver finds the homeserver
\* record or finds none.
JsonAnswers(op) ==
    IF op = "pubky_resolve_homeserver" THEN {"found", "absent"}
    ELSE {"ok", "failed"}

\* The JSON text of the response: success_response and error_response
\* (lib.rs:149-164), with the data of pubky_resolve_homeserver
\* (lib.rs:883-890).
JsonResponse(op, ans) ==
    CASE ans = "failed" -> [success |-> FALSE, data |-> "none"]
      [] ans = "found" -> [success |-> TRUE, data |-> "homeserver: key"]
      [] ans = "absent" -> [success |-> TRUE, data |-> "homeserver: null"]
      [] OTHER -> [success |-> TRUE, data |-> "data"]

\* The record of a returned call of lib.rs: its arguments, the message of a
\* failed check, the cell it asked and the instance it got (0: none), and
\* what the network made of its request ("none": no request was attempted).
JsonDone(op, secret, other, cell, check, inst, answer, json) ==
    [op |-> op, secret |-> secret, other |-> other, cell |-> cell,
     check |-> check, inst |-> inst, attempted |-> answer # "none",
     answer |-> answer, json |-> json,
     outcome |-> IF json.success THEN "ok" ELSE "error"]

\* The frame of the steps on the global instances.
GlobalFrame ==
    /\ UNCHANGED <<heap, releases, signedOut, sessionOut, granted, caps,
                   revoked, storVars>>
    /\ UNCHANGED httpVars

\* pubky_signup, pubky_signin, pubky_put, pubky_get, pubky_delete,
\* pubky_resolve_homeserver (lib.rs:272-600, 855-891): the checks of the
\* arguments, then get_pubky or get_pubky_testnet, then RUNTIME.block_on of
\* the request.
PubkyJson(op, secret, other, testnet) ==
    /\ ThreadFree
    /\ Alive
    /\ LET c == PubkyCellOf(testnet)
           check == validate(op, secret, other)
       IN  IF check # "ok"
           THEN /\ done' = JsonDone(op, secret, other, c, check, 0, "none",
                                    [success |-> FALSE, data |-> "none"])
                /\ UNCHANGED <<cells, runtime>>
           ELSE \E built \in BOOLEAN, rt \in BOOLEAN,
                   ans \in JsonAnswers(op) :
                   LET g == get_instance(c, built)
                   IN  /\ cells' = g.cells
                       /\ runtime' = IF g.ok THEN force("lib.rs", rt)
                                     ELSE runtime
                       /\ done' =
                             IF ~g.ok \/ runtime'["lib.rs"] = "aborted"
                             THEN JsonDone(op, secret, other, c, check,
                                           g.inst, "none",
                                           [success |-> FALSE,
                                            data |-> "none"])
                             ELSE JsonDone(op, secret, other, c, check,
                                           g.inst, ans,
                                           JsonResponse(op, ans))
    /\ UNCHANGED <<inflight, bufVars>>
    /\ GlobalFrame

\* The entry points of runtime.rs and pubky.rs that create an instance.
InitOps == {"pubky_init", "pubky_init_testnet"}
NewOps == {"pubky_new", "pubky_testnet"}

\* The network of an entry point.
TestnetOf(op) == op \in {"pubky_init_testnet", "pubky_testnet"}

\* A call of runtime.rs returns.
GlobalDone(op, cell, outcome, inst) ==
    [op |-> op, cell |-> cell, outcome |-> outcome, inst |-> inst]

\* pubky_init, pubky_init_testnet: let _ = &*RUNTIME, then the call of
\* get_global_pubky (runtime.rs:72-78, 85-91); pubky_new, pubky_testnet:
\* the call of get_global_pubky (pubky.rs:38-42, 50-54).
GlobalCall(op) ==
    /\ ThreadFree
    /\ Alive
    /\ \E rt \in BOOLEAN :
          /\ runtime' = IF op \in InitOps THEN force("runtime.rs", rt)
                        ELSE runtime
          /\ IF runtime'["runtime.rs"] = "aborted"
             THEN /\ done' = GlobalDone(op, OnceCellOf(TestnetOf(op)),
                                        "abort", 0)
                  /\ UNCHANGED inflight
             ELSE /\ inflight' = inflight (+)
                        SetToBag({[op |-> op,
                                   cell |-> OnceCellOf(TestnetOf(op)),
                                   pc |-> "get_or_init"]})
                  /\ UNCHANGED done
    /\ UNCHANGED <<cells, bufVars>>
    /\ GlobalFrame

\* No thread is inside the closure of the cell.
OnceFree_unguarded(cell) == TRUE

\* OnceLock::get_or_init lets one thread run the closure of an empty cell;
\* the others wait.
OnceFree(cell) ==
    \A d \in BagToSet(inflight) :
        ~(d.op \in InitOps \cup NewOps /\ d.cell = cell /\ d.pc = "closure")

GlobalGetOrInit_skips_runtime(c) ==
    /\ c.op \in InitOps \cup NewOps
    /\ c.pc = "get_or_init"
    /\ Alive
    /\ IF cells[c.cell] # 0
       THEN /\ inflight' = inflight (-) SetToBag({c})
            /\ done' = GlobalDone(c.op, c.cell, "ok", cells[c.cell])
            /\ UNCHANGED runtime
       ELSE /\ OnceFree(c.cell)
            /\ inflight' = (inflight (-) SetToBag({c}))
                              (+) SetToBag({[c EXCEPT !.pc = "closure"]})
            /\ UNCHANGED <<done, runtime>>
    /\ UNCHANGED <<cells, bufVars>>
    /\ GlobalFrame

\* GLOBAL_PUBKY_CELL.get_or_init(|| { let _ = &*RUNTIME; .. }): a full cell
\* returns its instance; for an empty cell the thread enters the closure,
\* which first forces the runtime (runtime.rs:37-41, 49-53).
GlobalGetOrInit(c) ==
    /\ c.op \in InitOps \cup NewOps
    /\ c.pc = "get_or_init"
    /\ Alive
    /\ IF cells[c.cell] # 0
       THEN /\ inflight' = inflight (-) SetToBag({c})
            /\ done' = GlobalDone(c.op, c.cell, "ok", cells[c.cell])
            /\ UNCHANGED runtime
       ELSE /\ OnceFree(c.cell)
            /\ \E rt \in BOOLEAN :
                  /\ runtime' = force("runtime.rs", rt)
                  /\ IF runtime'["runtime.rs"] = "aborted"
                     THEN /\ inflight' = inflight (-) SetToBag({c})
                          /\ done' = GlobalDone(c.op, c.cell, "abort", 0)
                     ELSE /\ inflight' =
                                (inflight (-) SetToBag({c}))
                                (+) SetToBag({[c EXCEPT !.pc = "closure"]})
                          /\ UNCHANGED done
    /\ UNCHANGED <<cells, bufVars>>
    /\ GlobalFrame

\* pubky::Pubky::new().expect(..) in the closure: the new instance fills the
\* cell, or the panic aborts the process (runtime.rs:42, 54).
GlobalClosure(c) ==
    /\ c.op \in InitOps \cup NewOps
    /\ c.pc = "closure"
    /\ Alive
    /\ inflight' = inflight (-) SetToBag({c})
    /\ \E built \in BOOLEAN :
          IF built
          THEN /\ cells' = [cells EXCEPT ![c.cell] =
                               IF @ < MaxBuilds THEN @ + 1 ELSE @]
               /\ done' = GlobalDone(c.op, c.cell, "ok", cells'[c.cell])
               /\ UNCHANGED runtime
          ELSE /\ runtime' = [runtime EXCEPT !["runtime.rs"] = "aborted"]
               /\ done' = GlobalDone(c.op, c.cell, "abort", 0)
               /\ UNCHANGED cells
    /\ UNCHANGED bufVars
    /\ GlobalFrame

\* The FfiPubky handles a caller can hold: null, and the handle of a network
\* once pubky_new or pubky_testnet can have returned it, which is after the
\* cell of the network was filled.
PubkyHandles ==
    {"null"} \cup {n \in {"mainnet", "testnet"} :
                     cells[OnceCellOf(n = "testnet")] # 0}

\* What the resolver finds for a user: the homeserver record, or none.
ResolveAnswers == {"found", "absent"}

\* The keys callers pass to pubky_get_homeserver_of: a null pointer, or the
\* handle of a public key.
UserKeys == {"null", "key"}

PubkyGetHomeserverOf_absent_is_error(h, key) ==
    /\ ThreadFree
    /\ Alive
    /\ held = NoResult
    /\ Cardinality(FreeAddrs(bufs)) >= 2
    /\ \E ans \in ResolveAnswers :
          LET r == IF h = "null" \/ key = "null" \/ ans = "absent"
                   THEN FfiResult_error(bufs, -1)
                   ELSE FfiResult_success(bufs)
          IN  /\ held' = r.res
              /\ bufs' = r.bufs
              /\ done' = [op |-> "pubky_get_homeserver_of", h |-> h,
                          key |-> key, answer |-> ans, result |-> r.res,
                          cell |-> OnceCellOf(h = "testnet"),
                          inst |-> IF h = "null" \/ key = "null" THEN 0
                                   ELSE cells[OnceCellOf(h = "testnet")],
                          outcome |-> IF r.res.code = 0 THEN "ok"
                                      ELSE "error"]
    /\ UNCHANGED <<inflight, globVars>>
    /\ GlobalFrame

\* pubky_get_homeserver_of (pubky.rs:110-125): the null check, then
\* block_on(pubky_handle.get().get_homeserver_of(user_pk)); Some is the
\* success with the key, None the success without data. FfiPubky::get
\* (pubky.rs:23-29) asks the cell of the handle's network, which is full
\* since the handle was made.
PubkyGetHomeserverOf(h, key) ==
    /\ ThreadFree
    /\ Alive
    /\ held = NoResult
    /\ Cardinality(FreeAddrs(bufs)) >= 2
    /\ \E ans \in ResolveAnswers :
          LET r == IF h = "null" \/ key = "null"
                   THEN FfiResult_error(bufs, -1)
                   ELSE IF ans = "found" THEN FfiResult_success(bufs)
                   ELSE FfiResult_success_empty(bufs)
          IN  /\ held' = r.res
              /\ bufs' = r.bufs
              /\ done' = [op |-> "pubky_get_homeserver_of", h |-> h,
                          key |-> key, answer |-> ans, result |-> r.res,
                          cell |-> OnceCellOf(h = "testnet"),
                          inst |-> IF h = "null" \/ key = "null" THEN 0
                                   ELSE cells[OnceCellOf(h = "testnet")],
                          outcome |-> IF r.res.code = 0 THEN "ok"
                                      ELSE "error"]
    /\ UNCHANGED <<inflight, globVars>>
    /\ GlobalFrame

\* The other string argument of an entry point: the homeserver key of
\* pubky_signup and the public key of pubky_resolve_homeserver, the path of
\* pubky_put, pubky_get and pubky_delete (a string or none), and none for
\* pubky_signin, which takes the secret key only.
OtherArgsOf(op) ==
    IF op \in PathOps
    THEN {a \in OtherArgs : a.valid => ~try_from_z32_ok(a.text)}
    ELSE IF op = "pubky_signin" THEN {[valid |-> TRUE, text |-> <<>>]}
    ELSE OtherArgs

\* The calls of lib.rs that take a secret key, and cross_request.
JsonNext ==
    \/ \E op \in SecretOps, secret \in SecretArgs, testnet \in BOOLEAN :
          \E other \in OtherArgsOf(op) :
             PubkyJson(op, secret, other, testnet)
    \/ CrossRequest

\* pubky_resolve_homeserver takes no secret key.
NoSecret == [valid |-> FALSE, text |-> <<>>]

\* The lookups of a homeserver, with pubky_new and pubky_testnet, which make
\* the handles, and the release of the results.
PubkyNext ==
    \/ \E op \in NewOps : GlobalCall(op)
    \/ \E c \in BagToSet(inflight) : GlobalGetOrInit(c)
    \/ \E c \in BagToSet(inflight) : GlobalClosure(c)
    \/ \E h \in PubkyHandles, key \in UserKeys : PubkyGetHomeserverOf(h, key)
    \/ pubky_result_free
    \/ \E other \in OtherArgs, testnet \in BOOLEAN :
          PubkyJson("pubky_resolve_homeserver", NoSecret, other, testnet)

\* The calls of runtime.rs and pubky.rs that ask for a global instance:
\* pubky_init, pubky_init_testnet, pubky_new, pubky_testnet, and a lookup
\* through a handle, which asks by FfiPubky::get.
OnceNext ==
    \/ \E op \in InitOps \cup NewOps : GlobalCall(op)
    \/ \E c \in BagToSet(inflight) : GlobalGetOrInit(c)
    \/ \E c \in BagToSet(inflight) : GlobalClosure(c)
    \/ \E h \in PubkyHandles \ {"null"} : PubkyGetHomeserverOf(h, "key")
    \/ pubky_result_free

\* The calls that ask for a global instance in either binding: pubky_new
\* and pubky_testnet (runtime.rs), pubky_signin and pubky_http_request with
\* valid arguments (lib.rs).
GlobalsNext ==
    \/ \E op \in NewOps : GlobalCall(op)
    \/ \E c \in BagToSet(inflight) : GlobalGetOrInit(c)
    \/ \E c \in BagToSet(inflight) : GlobalClosure(c)
    \/ \E testnet \in BOOLEAN :
          PubkyJson("pubky_signin",
                    [valid |-> TRUE, text |-> HexText(SecretLen)],
                    [valid |-> TRUE, text |-> <<>>], testnet)
    \/ \E testnet \in BOOLEAN :
          PubkyHttpRequest([valid |-> TRUE, text |-> <<"G", "E", "T">>],
                           "parsed", testnet)

(***************************************************************************)
(* FFI storage handles (bindings/ffi/src/storage.rs, pubky.rs)             *)
(*                                                                         *)
(* pubky_session_storage boxes a SessionStorage made from the session; the *)
(* caller is taken to keep the latest storage handle of each session.      *)
(* Each storage call is one request to the homeserver and is one step.     *)
(***************************************************************************)
\* The bodies callers put: a text that is no JSON, and a JSON text.
Bodies == {"hello", "{}"}

\* serde_json::from_str(body).is_ok()
is_json(body) == body = "{}"

\* The homeserver's part in a write: it is applied and answered, or the
\* request fails and the homeserver does not apply it.
WriteAnswers == {"ok", "failed"}

\* The homeserver's part in a read: it is answered, or the request fails.
ReadAnswers == {"ok", "failed"}

\* The arguments other than the handle: all valid, or a path (address) or a
\* body that is null or no valid string.
ArgStates == {"valid", "invalid"}

\* The failures of the storage actors.
ValidationError == [variant |-> "Request", kind |-> "validation"]
NetworkError == [variant |-> "Request", kind |-> "network"]
ParseError == [variant |-> "Parse", kind |-> "parse"]
ResolutionError == [variant |-> "Pkarr", kind |-> "resolution"]

\* The storage handles a caller can hold.
StorageHeld == {NULL} \cup {h \in Sessions : storage[h] # "unalloc"}

\* scope is a prefix of path.
is_prefix(scope, path) ==
    /\ Len(scope) <= Len(path)
    /\ SubSeq(path, 1, Len(scope)) = scope

\* The path falls under some capability of the set that has the permission.
permits(cs, path, perm) ==
    \E i \in 1..Len(cs) :
        /\ is_prefix(cs[i].scope, path)
        /\ \E j \in 1..Len(cs[i].flags) : cs[i].flags[j] = perm

\* A storage call returns: its outcome and code, the state in which it found
\* the storage box, the kind of the failure, whether a request went to the
\* network, and the payload.
StorageReturn(op, h, path, outcome, code, box, kind, sent, data) ==
    done' = [op |-> op, h |-> h, path |-> path, outcome |-> outcome,
             code |-> code, box |-> box, kind |-> kind, sent |-> sent,
             data |-> data]

\* The return of a null handle or an invalid argument:
\* FfiResult::error(.., -1).
ArgumentError(op, h, path) ==
    StorageReturn(op, h, path, "error", -1, "none", "validation", FALSE,
                  "none")

\* &(*storage).0 on a released box, when the call does not go on with the
\* stale contents.
StorageCrash(op, h, path, box) ==
    StorageReturn(op, h, path, "crash", 0, box, "none", FALSE, "none")

\* The frame of a storage call.
StorageFrame ==
    /\ UNCHANGED <<heap, releases, signedOut, inflight, sessionOut, granted,
                   caps>>
    /\ UNCHANGED <<httpVars, globVars, bufVars, revoked>>

\* The calls made through a session storage handle: they carry the
\* credentials of the session the handle was made from.
SessionStorageOps ==
    {"put_text", "put_bytes", "put_json", "delete", "get_text", "get_bytes",
     "get_json", "exists", "list"}

\* The homeserver refuses the request: it carries the credentials of a
\* session that a signout has invalidated.
Refused(op, h) == op \in SessionStorageOps /\ revoked[h]

\* The homeserver's part in the request of a call: a refused request fails.
ServerAnswers(op, h) ==
    IF Refused(op, h) THEN {"failed"} ELSE WriteAnswers \cup ReadAnswers

CoreWrite_sends_unchecked(op, h, path, value, box) ==
    \E ans \in ServerAnswers(op, h) :
        /\ store' = IF ans = "failed" THEN store
                    ELSE [store EXCEPT ![path] = value]
        /\ written' =
              IF ans = "failed" THEN written
              ELSE [written EXCEPT ![path] =
                       IF value = Absent THEN "delete" ELSE "put"]
        /\ IF ans = "ok"
           THEN StorageReturn(op, h, path, "ok", 0, box, "none", TRUE,
                              "none")
           ELSE StorageReturn(op, h, path, "error",
                              from_pubky_error(NetworkError), box,
                              "network", TRUE, "none")

\* SessionStorage::put and ::delete: the capability check, then the
\* request; value is the object the path holds afterwards.
CoreWrite(op, h, path, value, box) ==
    IF ~permits(caps[h], path, "w")
    THEN /\ StorageReturn(op, h, path, "error",
                          from_pubky_error(ValidationError), box,
                          "validation", FALSE, "none")
         /\ UNCHANGED <<store, written>>
    ELSE \E ans \in ServerAnswers(op, h) :
            /\ store' = IF ans = "failed" THEN store
                        ELSE [store EXCEPT ![path] = value]
            /\ written' =
                  IF ans = "failed" THEN written
                  ELSE [written EXCEPT ![path] =
                           IF value = Absent THEN "delete" ELSE "put"]
            /\ IF ans = "ok"
               THEN StorageReturn(op, h, path, "ok", 0, box, "none", TRUE,
                                  "none")
               ELSE StorageReturn(op, h, path, "error",
                                  from_pubky_error(NetworkError), box,
                                  "network", TRUE, "none")

PutOps == {"put_text", "put_bytes", "put_json"}

\* pubky_session_storage_put_text, _put_bytes, _put_json: the null check of
\* the handle, the conversion of path and body (and the JSON parse), then
\* block_on(storage.put(..)) (storage.rs:112-137, 150-182, 190-220).
SessionStoragePut(op, h, path, body, arg) ==
    /\ ThreadFree
    /\ IF h = NULL \/ arg # "valid" \/ (op = "put_json" /\ ~is_json(body))
       THEN /\ ArgumentError(op, h, path)
            /\ UNCHANGED <<store, written>>
       ELSE \/ /\ storage[h] # "live"
               /\ StorageCrash(op, h, path, storage[h])
               /\ UNCHANGED <<store, written>>
            \/ CoreWrite(op, h, path, body, storage[h])
    /\ UNCHANGED <<storage, public>>
    /\ StorageFrame

\* pubky_session_storage_delete (storage.rs:228-247).
SessionStorageDelete(h, path, arg) ==
    /\ ThreadFree
    /\ IF h = NULL \/ arg # "valid"
       THEN /\ ArgumentError("delete", h, path)
            /\ UNCHANGED <<store, written>>
       ELSE \/ /\ storage[h] # "live"
               /\ StorageCrash("delete", h, path, storage[h])
               /\ UNCHANGED <<store, written>>
            \/ CoreWrite("delete", h, path, Absent, storage[h])
    /\ UNCHANGED <<storage, public>>
    /\ StorageFrame

\* The homeserver holds an object at the path.
Stored(path) == store[path] # Absent

\* The code of a failed get: get_bytes reports 1 for every error, the others
\* the code of the error (storage.rs:42, 72, 102, 352, 382, 412).
GetErrorCode(op, err) ==
    IF op \in {"get_bytes", "public_get_bytes"} THEN 1
    ELSE from_pubky_error(err)

\* The failures of a get that the homeserver did not answer: the request
\* failed, or the user's homeserver could not be resolved.
GetFailures == {NetworkError, ResolutionError}

\* storage.get(path) and the reading of the response: an object that is not
\* there, and a refused request, is a failed request; get_json parses the
\* body.
GetResponse(op, h, path, box) ==
    \E ans \in ServerAnswers(op, h), err \in GetFailures :
        IF ans = "failed" /\ ~Refused(op, h)
        THEN StorageReturn(op, h, path, "error", GetErrorCode(op, err), box,
                           err.kind, TRUE, "none")
        ELSE IF ans = "failed" \/ ~Stored(path)
        THEN StorageReturn(op, h, path, "error",
                           GetErrorCode(op, NetworkError), box, "network",
                           TRUE, "none")
        ELSE IF op \in {"get_json", "public_get_json"}
                /\ ~is_json(store[path])
        THEN StorageReturn(op, h, path, "error",
                           GetErrorCode(op, ParseError), box, "parse", TRUE,
                           "none")
        ELSE StorageReturn(op, h, path, "ok", 0, box, "none", TRUE,
                           store[path])

ExistsResponse_inverted(op, h, path, box) ==
    \E ans \in ServerAnswers(op, h) :
        IF ans = "failed"
        THEN StorageReturn(op, h, path, "error",
                           from_pubky_error(NetworkError), box, "network",
                           TRUE, "none")
        ELSE StorageReturn(op, h, path, "ok", 0, box, "none", TRUE,
                           IF Stored(path) THEN "false" ELSE "true")

\* block_on(storage.exists(path)): Ok(exists) is the success "true" or
\* "false", Err the error's code (storage.rs:270-273, 437-440).
ExistsResponse(op, h, path, box) ==
    \E ans \in ServerAnswers(op, h) :
        IF ans = "failed"
        THEN StorageReturn(op, h, path, "error",
                           from_pubky_error(NetworkError), box, "network",
                           TRUE, "none")
        ELSE StorageReturn(op, h, path, "ok", 0, box, "none", TRUE,
                           IF Stored(path) THEN "true" ELSE "false")

\* The paths in the order the homeserver lists them.
PathOrder == <<<<"priv", "a">>, <<"pub", "a">>>>

\* The directories listed and the limits given (limit: u16).
ListDirs == {<<>>, <<"pub">>}
Limits == {0, 1, 2}

\* The first `limit` of a sequence.
Truncate(entries, limit) ==
    SubSeq(entries, 1, IF Len(entries) < limit THEN Len(entries) ELSE limit)

StoredUnder(dir, p) == Stored(p) /\ is_prefix(dir, p)

\* The stored paths under dir, in the order of the homeserver.
Listing(dir) == SelectSeq(PathOrder, LAMBDA p : StoredUnder(dir, p))

\* A list call that sent its request returns: the record of a storage call
\* with the limit that was asked.
ListReturn(op, h, dir, limit, outcome, code, box, kind, data) ==
    done' = [op |-> op, h |-> h, path |-> dir, outcome |-> outcome,
             code |-> code, box |-> box, kind |-> kind, sent |-> TRUE,
             data |-> data, limit |-> limit]

\* storage.list(dir)?.limit(limit).send(): the stored paths under dir, cut
\* at the limit.
ListResponse(op, h, dir, limit, box) ==
    \E ans \in ServerAnswers(op, h) :
        IF ans = "failed"
        THEN ListReturn(op, h, dir, limit, "error",
                        from_pubky_error(NetworkError), box, "network",
                        "none")
        ELSE ListReturn(op, h, dir, limit, "ok", 0, box, "none",
                        Truncate(Listing(dir), limit))

\* The failure of the capability check of a read.
ReadDenied(op, h, path, box) ==
    StorageReturn(op, h, path, "error",
                  GetErrorCode(op, ValidationError), box, "validation",
                  FALSE, "none")

GetOps == {"get_text", "get_bytes", "get_json"}

\* pubky_session_storage_get_text, _get_bytes, _get_json (storage.rs:22-44,
\* 52-74, 82-104).
SessionStorageGet(op, h, path, arg) ==
    /\ ThreadFree
    /\ IF h = NULL \/ arg # "valid"
       THEN ArgumentError(op, h, path)
       ELSE \/ /\ storage[h] # "live"
               /\ StorageCrash(op, h, path, storage[h])
            \/ IF ~permits(caps[h], path, "r")
               THEN ReadDenied(op, h, path, storage[h])
               ELSE GetResponse(op, h, path, storage[h])
    /\ UNCHANGED storVars
    /\ StorageFrame

\* pubky_session_storage_exists (storage.rs:255-274).
SessionStorageExists(h, path, arg) ==
    /\ ThreadFree
    /\ IF h = NULL \/ arg # "valid"
       THEN ArgumentError("exists", h, path)
       ELSE \/ /\ storage[h] # "live"
               /\ StorageCrash("exists", h, path, storage[h])
            \/ IF ~permits(caps[h], path, "r")
               THEN ReadDenied("exists", h, path, storage[h])
               ELSE ExistsResponse("exists", h, path, storage[h])
    /\ UNCHANGED storVars
    /\ StorageFrame

\* pubky_session_storage_list (storage.rs:283-311).
SessionStorageList(h, dir, limit, arg) ==
    /\ ThreadFree
    /\ IF h = NULL \/ arg # "valid"
       THEN ArgumentError("list", h, dir)
       ELSE \/ /\ storage[h] # "live"
               /\ StorageCrash("list", h, dir, storage[h])
            \/ IF ~permits(caps[h], dir, "r")
               THEN ReadDenied("list", h, dir, storage[h])
               ELSE ListResponse("list", h, dir, limit, storage[h])
    /\ UNCHANGED storVars
    /\ StorageFrame

\* pubky_session_storage_free: if !storage.is_null() {
\* drop(Box::from_raw(storage)) } (storage.rs:318-322).
SessionStorageFree(h) ==
    /\ ThreadFree
    /\ IF h = NULL
       THEN /\ StorageReturn("storage_free", h, <<>>, "null_noop", 0, "none",
                             "none", FALSE, "none")
            /\ UNCHANGED storage
       ELSE /\ storage' = [storage EXCEPT ![h] = "freed"]
            /\ \E o \in (IF storage[h] = "live" THEN {"ok"} ELSE UBOutcomes) :
                  StorageReturn("storage_free", h, <<>>, o, 0, storage[h],
                                "none", FALSE, "none")
    /\ UNCHANGED <<public, store, written>>
    /\ StorageFrame

\* The address of the FfiPublicStorage box.
PublicBox == 1

\* The public storage handles a caller can hold.
PublicHeld == {NULL} \cup (IF public # "unalloc" THEN {PublicBox} ELSE {})

\* pubky_public_storage: null for a null pubky pointer, else a new box of
\* pubky.public_storage() (pubky.rs:95-102). It takes no signer and no
\* session.
PubkyPublicStorage ==
    /\ ThreadFree
    /\ \/ /\ StorageReturn("public_storage", NULL, <<>>, "null_error", 0,
                           "none", "none", FALSE, "none")
          /\ UNCHANGED public
       \/ /\ public' = "live"
          /\ StorageReturn("public_storage", PublicBox, <<>>, "ok", 0,
                           "live", "none", FALSE, "none")
    /\ UNCHANGED <<storage, store, written>>
    /\ StorageFrame

PublicGetOps == {"public_get_text", "public_get_bytes", "public_get_json"}

PublicStorageGet_creates_missing(op, s, path, arg) ==
    /\ ThreadFree
    /\ IF s = NULL \/ arg # "valid"
       THEN /\ ArgumentError(op, s, path)
            /\ UNCHANGED store
       ELSE \/ /\ public # "live"
               /\ StorageCrash(op, s, path, public)
               /\ UNCHANGED store
            \/ /\ GetResponse(op, s, path, public)
               /\ store' = IF Stored(path) THEN store
                           ELSE [store EXCEPT ![path] = "{}"]
    /\ UNCHANGED <<storage, public, written>>
    /\ StorageFrame

\* pubky_public_storage_get_text, _get_bytes, _get_json (storage.rs:332-354,
\* 362-384, 392-414).
PublicStorageGet(op, s, path, arg) ==
    /\ ThreadFree
    /\ IF s = NULL \/ arg # "valid"
       THEN ArgumentError(op, s, path)
       ELSE \/ /\ public # "live"
               /\ StorageCrash(op, s, path, public)
            \/ GetResponse(op, s, path, public)
    /\ UNCHANGED storVars
    /\ StorageFrame

\* pubky_public_storage_exists (storage.rs:422-441).
PublicStorageExists(s, path, arg) ==
    /\ ThreadFree
    /\ IF s = NULL \/ arg # "valid"
       THEN ArgumentError("public_exists", s, path)
       ELSE \/ /\ public # "live"
               /\ StorageCrash("public_exists", s, path, public)
            \/ ExistsResponse("public_exists", s, path, public)
    /\ UNCHANGED storVars
    /\ StorageFrame

\* pubky_public_storage_list (storage.rs:450-478).
PublicStorageList(s, dir, limit, arg) ==
    /\ ThreadFree
    /\ IF s = NULL \/ arg # "valid"
       THEN ArgumentError("public_list", s, dir)
       ELSE \/ /\ public # "live"
               /\ StorageCrash("public_list", s, dir, public)
            \/ ListResponse("public_list", s, dir, limit, public)
    /\ UNCHANGED storVars
    /\ StorageFrame

\* pubky_public_list (lib.rs:664-716): the address, get_pubky or
\* get_pubky_testnet, then public_storage.list(address) with
\* builder.limit(limit) only if limit > 0; with no limit given the
\* homeserver cuts the listing at its default, which is above the number of
\* paths of the model. It takes no handle; its failures carry no code.
PubkyPublicList(dir, limit, arg, testnet) ==
    /\ ThreadFree
    /\ Alive
    /\ IF arg # "valid"
       THEN /\ ListReturn("pubky_public_list", NULL, dir, limit, "error", 0,
                          "none", "validation", "none")
            /\ UNCHANGED globVars
       ELSE \E built \in BOOLEAN, rt \in BOOLEAN, ans \in ReadAnswers :
               LET g == get_instance(PubkyCellOf(testnet), built)
               IN  /\ cells' = g.cells
                   /\ runtime' = IF g.ok THEN force("lib.rs", rt)
                                 ELSE runtime
                   /\ IF ~g.ok \/ runtime'["lib.rs"] = "aborted"
                         \/ ans = "failed"
                      THEN ListReturn("pubky_public_list", NULL, dir, limit,
                                      "error", 0, "none", "network", "none")
                      ELSE ListReturn("pubky_public_list", NULL, dir, limit,
                                      "ok", 0, "none", "none",
                                      IF limit > 0
                                      THEN Truncate(Listing(dir), limit)
                                      ELSE Listing(dir))
    /\ UNCHANGED <<inflight, bufVars>>
    /\ GlobalFrame

\* pubky_public_storage_free (storage.rs:485-489).
PublicStorageFree(s) ==
    /\ ThreadFree
    /\ IF s = NULL
       THEN /\ StorageReturn("public_free", s, <<>>, "null_noop", 0, "none",
                             "none", FALSE, "none")
            /\ UNCHANGED public
       ELSE /\ public' = "freed"
            /\ \E o \in (IF public = "live" THEN {"ok"} ELSE UBOutcomes) :
                  StorageReturn("public_free", s, <<>>, o, 0, public, "none",
                                FALSE, "none")
    /\ UNCHANGED <<storage, store, written>>
    /\ StorageFrame

SessionStorageNext ==
    \/ \E op \in PutOps, h \in StorageHeld, path \in StoragePaths,
          body \in Bodies, arg \in ArgStates :
            SessionStoragePut(op, h, path, body, arg)
    \/ \E h \in StorageHeld, path \in StoragePaths, arg \in ArgStates :
            SessionStorageDelete(h, path, arg)
    \/ \E op \in GetOps, h \in StorageHeld, path \in StoragePaths,
          arg \in ArgStates :
            SessionStorageGet(op, h, path, arg)
    \/ \E h \in StorageHeld, path \in StoragePaths, arg \in ArgStates :
            SessionStorageExists(h, path, arg)
    \/ \E h \in StorageHeld, dir \in ListDirs, limit \in Limits,
          arg \in ArgStates :
            SessionStorageList(h, dir, limit, arg)
    \/ \E h \in StorageHeld : SessionStorageFree(h)

PublicStorageNext ==
    \/ PubkyPublicStorage
    \/ \E op \in PublicGetOps, s \in PublicHeld, path \in StoragePaths,
          arg \in ArgStates :
            PublicStorageGet(op, s, path, arg)
    \/ \E s \in PublicHeld, path \in StoragePaths, arg \in ArgStates :
            PublicStorageExists(s, path, arg)
    \/ \E s \in PublicHeld, dir \in ListDirs, limit \in Limits,
          arg \in ArgStates :
            PublicStorageList(s, dir, limit, arg)
    \/ \E s \in PublicHeld : PublicStorageFree(s)

\* Signin, the reads of the session (pubky_session_storage among them) and
\* the calls on a session storage handle.
StorageNext ==
    \/ SignerSignin
    \/ \E op \in ReadOps, h \in Held : SessionRead(op, h)
    \/ SessionStorageNext

\* The calls on a public storage handle, and the session calls that write
\* the objects it reads.
PublicNext ==
    \/ SignerSignin
    \/ \E h \in Held : SessionRead("storage", h)
    \/ \E op \in PutOps, h \in StorageHeld, path \in StoragePaths,
          body \in Bodies, arg \in ArgStates :
            SessionStoragePut(op, h, path, body, arg)
    \/ \E h \in StorageHeld, path \in StoragePaths, arg \in ArgStates :
            SessionStorageDelete(h, path, arg)
    \/ PublicStorageNext

\* Every signin, the calls that borrow the session it returns, and valid
\* puts, deletes and gets on the storage handle made from it.
SigninNext ==
    \/ SignerSignin
    \/ \E op \in WithResultOps : SignerSigninWithResult(op)
    \/ \E op \in ReadOps, h \in Held : SessionRead(op, h)
    \/ \E h \in Held : SessionRevalidateCall(h)
    \/ \E c \in BagToSet(inflight) : SessionRevalidateReturn(c)
    \/ \E h \in StorageHeld, path \in StoragePaths :
            SessionStoragePut("put_text", h, path, "hello", "valid")
    \/ \E h \in StorageHeld, path \in StoragePaths :
            SessionStorageDelete(h, path, "valid")
    \/ \E h \in StorageHeld, path \in StoragePaths :
            SessionStorageGet("get_text", h, path, "valid")

\* The life of a session handle: signin, the calls that borrow the box and
\* the two that release it. The storage handles pubky_session_storage makes
\* are followed in StorageNext.
SessNext ==
    \/ SignerSignin
    \/ \E op \in InfoOps, h \in Held : SessionRead(op, h)
    \/ \E h \in Held : SessionRevalidateCall(h)
    \/ \E c \in BagToSet(inflight) : SessionRevalidateReturn(c)
    \/ \E h \in Held : SessionSignoutCall(h)
    \/ \E c \in BagToSet(inflight) : SessionSignoutReturn(c)
    \/ \E h \in Held : SessionFree(h)

\* The list calls of both bindings, with the signin and the puts that fill
\* the directories.
ListNext ==
    \/ SignerSignin
    \/ \E h \in Held : SessionRead("storage", h)
    \/ \E h \in StorageHeld, path \in StoragePaths :
            SessionStoragePut("put_text", h, path, "hello", "valid")
    \/ \E h \in StorageHeld, dir \in ListDirs, limit \in Limits :
            SessionStorageList(h, dir, limit, "valid")
    \/ PubkyPublicStorage
    \/ \E s \in PublicHeld, dir \in ListDirs, limit \in Limits :
            PublicStorageList(s, dir, limit, "valid")
    \/ \E dir \in ListDirs, limit \in Limits, arg \in ArgStates :
            PubkyPublicList(dir, limit, arg, FALSE)

\* The session handles and the storage handles whose box is live: the
\* handles of a caller that uses no handle after its release.
LiveSessions == {h \in Sessions : heap[h] = "live"}
LiveStorages == {h \in Sessions : storage[h] = "live"}

\* A session, the storage handle made from it, the two calls that release
\* the session, and valid calls on the storage handle, on one path, by a
\* caller that uses no handle after its release.
SignoutNext ==
    \/ SignerSignin
    \/ \E h \in LiveSessions : SessionRead("storage", h)
    \/ \E h \in LiveSessions : SessionSignoutCall(h)
    \/ \E c \in BagToSet(inflight) : SessionSignoutReturn(c)
    \/ \E h \in LiveSessions : SessionFree(h)
    \/ \E h \in LiveStorages :
            SessionStoragePut("put_text", h, <<"pub", "a">>, "hello", "valid")
    \/ \E h \in LiveStorages :
            SessionStorageDelete(h, <<"pub", "a">>, "valid")
    \/ \E h \in LiveStorages :
            SessionStorageGet("get_text", h, <<"pub", "a">>, "valid")
    \/ \E h \in LiveStorages :
            SessionStorageExists(h, <<"pub", "a">>, "valid")
    \/ \E h \in LiveStorages : SessionStorageList(h, <<"pub">>, 1, "valid")
    \/ \E h \in LiveStorages : SessionStorageFree(h)

(***************************************************************************)
(* Specifications                                                          *)
(***************************************************************************)
\* The HTTP part alone: the session part stays in its initial state.
InitHttp == HttpInit /\ SessInit

SpecHttp == InitHttp /\ [][HttpNext]_vars

\* The FFI HTTP entry points alone, called with one URL.
InitFfiHttp ==
    /\ url \in FfiUrls
    /\ last = NoOp
    /\ SessInit

SpecFfiHttp == InitFfiHttp /\ [][FfiHttpNext]_vars

\* The session part alone: the HTTP part stays at one URL.
InitSession ==
    /\ SessInit
    /\ url = [hasHost |-> FALSE, host |-> <<>>, path |-> "/"]
    /\ last = NoOp

SpecSession == InitSession /\ [][SessNext]_vars

\* The signin part: the homeserver grants any of the capability sets.
InitSignin ==
    /\ HandlesInit
    /\ granted \in CapSets
    /\ url = [hasHost |-> FALSE, host |-> <<>>, path |-> "/"]
    /\ last = NoOp

SpecSignin == InitSignin /\ [][SigninNext]_vars

\* The storage part: the homeserver grants any of the capability sets.
InitStorage ==
    /\ HandlesInit
    /\ granted \in CapSets
    /\ url = [hasHost |-> FALSE, host |-> <<>>, path |-> "/"]
    /\ last = NoOp

SpecStorage == InitStorage /\ [][StorageNext]_vars

\* The public storage part: the homeserver grants the root capability.
InitPublic ==
    /\ SessInit
    /\ url = [hasHost |-> FALSE, host |-> <<>>, path |-> "/"]
    /\ last = NoOp

SpecPublic == InitPublic /\ [][PublicNext]_vars

\* The result structures and their buffers alone.
InitResults ==
    /\ SessInit
    /\ url = [hasHost |-> FALSE, host |-> <<>>, path |-> "/"]
    /\ last = NoOp

SpecResults == InitResults /\ [][ResultNext]_vars


\* The entry points of lib.rs that take a secret key, and cross_request on
\* a URL whose host is a key in its display form or in its z32 form.
InitJson ==
    /\ SessInit
    /\ url \in {u \in FfiUrls :
                  u.hasHost /\ u.host \in {to_string(MarkerKey),
                                           z32(MarkerKey)}}
    /\ last = NoOp

SpecJson == InitJson /\ [][JsonNext]_vars

\* The homeserver lookups of both bindings.
InitPubky ==
    /\ SessInit
    /\ url = [hasHost |-> FALSE, host |-> <<>>, path |-> "/"]
    /\ last = NoOp

SpecPubky == InitPubky /\ [][PubkyNext]_vars

\* The calls that ask for a global instance, from the statics before their
\* first use.
InitGlobals ==
    /\ SessInit
    /\ url = [hasHost |-> FALSE, host |-> <<>>, path |-> "/"]
    /\ last = NoOp

SpecGlobals == InitGlobals /\ [][GlobalsNext]_vars

\* The calls of runtime.rs and pubky.rs alone.
SpecOnce == InitGlobals /\ [][OnceNext]_vars
\* The list calls: the homeserver grants the root capability.
InitList ==
    /\ SessInit
    /\ url = [hasHost |-> FALSE, host |-> <<>>, path |-> "/"]
    /\ last = NoOp

SpecList == InitList /\ [][ListNext]_vars

\* Signout and the storage handle: the homeserver grants the root
\* capability.
InitSignout ==
    /\ SessInit
    /\ url = [hasHost |-> FALSE, host |-> <<>>, path |-> "/"]
    /\ last = NoOp

SpecSignout == InitSignout /\ [][SignoutNext]_vars

(***************************************************************************)
(* Properties of the HTTP part (checked under SpecHttp)                    *)
(***************************************************************************)
\* The textual forms of the model's keys.
KeyTexts == {z32(K) : K \in Keys}
PrefixedTexts == {to_string(K) : K \in Keys}

\* The host with one leading "_pubky." taken off, when it has one.
StrippedHost(u) ==
    LET host == IF u.hasHost THEN u.host ELSE <<>>
    IN  IF strip_prefix(host, ReservedPrefix).some
        THEN strip_prefix(host, ReservedPrefix).rest
        ELSE host

\* C3: request hands the request to the key-pinned engine (http) when the
\* URL's host classifies as Pubky or ResolvedPubky and to the CA-verified
\* engine (icann_http) when it classifies as Icann, and the builder holds the
\* caller's method and URL unchanged.
C3_RequestRoutesByHostKind ==
    (last.op = "request" /\ url.hasHost) =>
        /\ classify_host(url.host) \in {"Pubky", "ResolvedPubky"}
              => last.builder.engine = "http"
        /\ classify_host(url.host) = "Icann"
              => last.builder.engine = "icann_http"
        /\ last.builder.method = last.method
        /\ last.builder.url = url

C3_Witness ==
    /\ last.op = "request"
    /\ url.hasHost
    /\ url.host \in KeyTexts
    /\ last.method = "PUT"
    /\ last.builder = [engine |-> "http", method |-> "PUT", url |-> url]

\* C4: the display form "pubky<z32>" of any key classifies as Icann, alone
\* and behind "_pubky.".
C4_PrefixedFormIsIcann ==
    (/\ last.op = "classify"
     /\ \/ url.host \in PrefixedTexts
        \/ /\ strip_prefix(url.host, ReservedPrefix).some
           /\ strip_prefix(url.host, ReservedPrefix).rest \in PrefixedTexts)
    => last.kind = "Icann"

C4_Witness ==
    /\ last.op = "classify"
    /\ strip_prefix(url.host, ReservedPrefix).some
    /\ strip_prefix(url.host, ReservedPrefix).rest = to_string(MarkerKey)
    /\ last.kind = "Icann"

\* C5: "_pubky." followed by the z32 form of any key classifies as
\* ResolvedPubky.
C5_ReservedPrefixKeyIsResolved ==
    (/\ last.op = "classify"
     /\ \E K \in Keys : url.host = ReservedPrefix \o z32(K))
    => last.kind = "ResolvedPubky"

C5_Witness ==
    /\ last.op = "classify"
    /\ url.host = ReservedPrefix \o z32(MarkerKey)
    /\ last.kind = "ResolvedPubky"

\* C6: the z32 form of any key, when it is not itself in display form,
\* classifies as Pubky.
C6_RawKeyIsPubky ==
    (/\ last.op = "classify"
     /\ url.host \in KeyTexts
     /\ ~is_pubky_prefixed(url.host))
    => last.kind = "Pubky"

C6_Witness ==
    /\ last.op = "classify"
    /\ url.host = z32(MarkerKey)
    /\ last.kind = "Pubky"

\* C7: a host that neither starts with "_pubky." nor parses as a raw z32 key
\* classifies as Icann.
C7_OtherHostIsIcann ==
    (/\ last.op = "classify"
     /\ ~strip_prefix(url.host, ReservedPrefix).some
     /\ ~try_from_z32_ok(url.host))
    => last.kind = "Icann"

C7_Witness ==
    /\ last.op = "classify"
    /\ url.host = <<"y", ".", "b">>
    /\ last.kind = "Icann"

\* C8: "_pubky." followed by a rest that is neither in display form nor a
\* valid raw z32 key classifies as Pubky.
C8_MalformedReservedIsPubky ==
    (/\ last.op = "classify"
     /\ strip_prefix(url.host, ReservedPrefix).some
     /\ ~is_pubky_prefixed(strip_prefix(url.host, ReservedPrefix).rest)
     /\ ~try_from_z32_ok(strip_prefix(url.host, ReservedPrefix).rest))
    => last.kind = "Pubky"

C8_Witness ==
    /\ last.op = "classify"
    /\ url.host = ReservedPrefix
    /\ last.kind = "Pubky"

\* C9: prepare_request fails, with a Validation error, exactly on the URLs
\* whose host, one leading "_pubky." taken off, is in display form.
C9_PrepareRejectsExactlyPrefixed ==
    last.op = "prepare" =>
        /\ is_pubky_prefixed(StrippedHost(url))
              => (last.res.tag = "Err" /\ last.res.err = "Validation")
        /\ ~is_pubky_prefixed(StrippedHost(url)) => last.res.tag # "Err"

C9_Witness ==
    /\ last.op = "prepare"
    /\ url.host = ReservedPrefix \o to_string(MarkerKey)
    /\ last.res.tag = "Err"

\* C10: when prepare_request does not fail, it returns a token exactly when
\* classify_host of the same host is Pubky or ResolvedPubky.
C10_PrepareAgreesWithClassify ==
    (last.op = "prepare" /\ url.hasHost /\ last.res.tag # "Err") =>
        (last.res.tag = "Some"
            <=> classify_host(url.host) \in {"Pubky", "ResolvedPubky"})

(***************************************************************************)
(* Properties of the FFI HTTP entry points (checked under SpecFfiHttp)     *)
(***************************************************************************)
\* C11: every request an FFI HTTP entry point sends to a URL whose host
\* classifies as Pubky (raw key) or ResolvedPubky goes through the key-pinned
\* engine (http), never through a CA-verified client.
C11_FfiKeyHostsUseKeyPinnedEngine ==
    (/\ last.op = "ffi_http"
     /\ last.sent
     /\ url.hasHost
     /\ classify_host(url.host) \in {"Pubky", "ResolvedPubky"})
    => last.engine = "http"

\* C12: the request an FFI HTTP entry point sends carries the method the
\* caller named, matched without regard to case among GET, POST, PUT,
\* DELETE, PATCH, HEAD and OPTIONS; for any other method string the call
\* fails and sends no request.
C12_FfiMethodIsCallersMethod ==
    last.op = "ffi_http" =>
        IF /\ last.arg.valid
           /\ \E a \in MethodArms : a.text = to_uppercase(last.arg.text)
        THEN last.sent =>
                [text |-> to_uppercase(last.arg.text),
                 method |-> last.method] \in MethodArms
        ELSE ~last.sent /\ last.failed

(***************************************************************************)
(* Properties of the session part (checked under SpecSession, SpecSignin)  *)
(***************************************************************************)
\* The calls that take a session handle.
HandleOps == ReadOps \cup {"revalidate", "signout", "free"}

\* The outcomes that are a defined rejection of the call.
DefinedErrors == {"null_error", "error"}

\* C1: a call on a handle that begins after pubky_session_signout returned
\* on that handle is rejected with a defined error, and neither reads nor
\* releases the released box.
C1_SignedOutHandleRejected ==
    (done.op \in HandleOps /\ done.after) =>
        /\ done.outcome \in DefinedErrors
        /\ done.box = "none"

\* C2: a call on a handle that began before any signout on it returned, and
\* so may overlap a signout, never uses or releases the box after signout
\* has taken it.
C2_ConcurrentSignoutSafe ==
    (/\ done.op \in HandleOps \ {"signout"}
     /\ done.h # NULL
     /\ ~done.after)
    => done.box # "signout"

\* The calls of the session part that return an FfiResult.
FfiResultOps ==
    WithResultOps \cup {"capabilities", "revalidate", "signout"}

\* C13: every failure returned in an FfiResult carries a code from 1 to 6.
C13_FailureCodesInClosedSet ==
    (done.op \in FfiResultOps /\ done.outcome \in DefinedErrors)
        => done.code \in 1..6

\* The calls that create a session: the pointer-returning ones and the ones
\* that return an FfiResult.
SigninOps == {"signin"} \cup WithResultOps

\* C15: signup and signin with a result write a handle to *session_out
\* exactly when they return code 0, and a failure (null arguments included)
\* leaves *session_out as it was and creates no session; the
\* pointer-returning signup and signin return null exactly on failure.
C15_SigninAllOrNothing ==
    /\ [](done.op \in WithResultOps =>
            /\ done.code = 0 <=> done.h # NULL
            /\ done.code = 0 <=> done.outcome = "ok"
            /\ done.code = 0 => (sessionOut = done.h
                                 /\ heap[done.h] # "unalloc"))
    /\ [](done.op = "signin" => (done.h = NULL <=> done.outcome # "ok"))
    /\ [][sessionOut' # sessionOut =>
            (done'.op \in WithResultOps /\ done'.code = 0)]_vars
    /\ [][(\E h \in Sessions : heap[h] = "unalloc" /\ heap'[h] # "unalloc")
            => /\ done'.op \in SigninOps
               /\ done'.outcome = "ok"
               /\ heap[done'.h] = "unalloc"
               /\ heap'[done'.h] = "live"]_vars

\* A signin with a result has failed after an earlier one succeeded: the
\* cell still holds the earlier handle.
C15_Witness ==
    /\ done.op \in WithResultOps
    /\ done.code = 4
    /\ done.h = NULL
    /\ sessionOut # NULL
    /\ heap[sessionOut] = "live"

\* C16: on a live handle pubky_session_revalidate returns the success
\* "valid" when the homeserver accepts the session, the success "invalid"
\* (code 0) when the session has expired, and a failure only when the request
\* failed; the call never releases or changes the session box.
C16_RevalidateOutcomes ==
    /\ []((done.op = "revalidate" /\ done.box = "live") =>
            /\ done.data = "accepted"
                  => (done.outcome = "valid" /\ done.code = 0)
            /\ done.data = "expired"
                  => (done.outcome = "invalid" /\ done.code = 0)
            /\ done.data = "failed"
                  => (done.outcome = "error" /\ done.code # 0))
    /\ [][(\/ \E h \in Held : SessionRevalidateCall(h)
           \/ \E c \in BagToSet(inflight) : SessionRevalidateReturn(c))
            => (heap' = heap /\ releases' = releases)]_vars

\* The homeserver has expired the session: revalidate returns "invalid" as
\* a success and the handle is still live.
C16_Witness ==
    /\ done.op = "revalidate"
    /\ done.box = "live"
    /\ done.data = "expired"
    /\ done.outcome = "invalid"
    /\ done.code = 0
    /\ heap[done.h] = "live"

\* C27: pubky_session_signout releases a non-null live handle once, at the
\* call, whether the homeserver then answers with success or with a failure:
\* the failure is returned as an error with a non-zero code, the return
\* hands no box back, and the handle is as released as after a success.
C27_SignoutReleasesInEveryOutcome ==
    /\ []((done.op = "signout" /\ done.box = "live") =>
            /\ done.outcome \in {"ok", "error"}
            /\ (done.outcome = "error") = (done.code # 0)
            /\ heap[done.h] = "signout"
            /\ releases[done.h] >= 1
            /\ signedOut[done.h])
    /\ [][\A c \in BagToSet(inflight') :
            (/\ c.op = "signout"
             /\ c.box = "live"
             /\ CopiesIn(c, inflight') > CopiesIn(c, inflight))
            => /\ heap[c.h] = "live"
               /\ heap'[c.h] = "signout"
               /\ releases'[c.h] = releases[c.h] + 1]_vars
    /\ [][\A c \in BagToSet(inflight) :
            (/\ c.op = "signout"
             /\ CopiesIn(c, inflight') < CopiesIn(c, inflight))
            => (heap' = heap /\ releases' = releases)]_vars

\* The homeserver failed the signout of a live handle: the call returned an
\* error and the box is released once.
C27_Witness ==
    /\ done.op = "signout"
    /\ done.outcome = "error"
    /\ done.box = "live"
    /\ heap[done.h] = "signout"
    /\ releases[done.h] = 1

(***************************************************************************)
(* Properties of the storage part (checked under SpecStorage, SpecPublic)  *)
(***************************************************************************)
\* The calls on a session storage handle that write, and those that read.
StorageWriteOps == PutOps \cup {"delete"}
StorageReadOps == GetOps \cup {"exists", "list"}

\* The code the enumeration of failure kinds gives each kind.
CodeOfKind ==
    [network |-> 1, resolution |-> 2, parse |-> 3, authentication |-> 4,
     build |-> 5, validation |-> 6]

\* C14: a failure is reported with the code of its kind: network/request 1,
\* resolution 2, parse 3, authentication 4, build 5, local validation 6.
C14_FailureCodeOfKind ==
    (/\ done.op \in StorageWriteOps \cup StorageReadOps
     /\ done.outcome = "error")
    => done.code = CodeOfKind[done.kind]

\* C17: pubky_session_capabilities returns, after any revalidate, storage
\* handle or storage call, the string of the capabilities granted at signin,
\* and the capabilities of an existing session never change.
C17_CapabilitiesNeverChange ==
    /\ []((done.op = "capabilities" /\ done.outcome = "ok")
            => done.data = caps_str(granted))
    /\ [][\A h \in Sessions :
            heap[h] # "unalloc" => caps'[h] = caps[h]]_vars

\* Capabilities granted for two directories are read while a revalidate of
\* the session is in flight, after a storage handle was made from it and a
\* put has stored an object.
C17_Witness ==
    /\ done.op = "capabilities"
    /\ done.outcome = "ok"
    /\ Len(granted) = 2
    /\ done.data = caps_str(granted)
    /\ storage[done.h] = "live"
    /\ store[<<"priv", "a">>] # Absent
    /\ \E c \in BagToSet(inflight) : c.op = "revalidate" /\ c.h = done.h

\* C18: a call on a session storage handle for a path that is under no
\* capability of the session with the permission the call needs (write for
\* put and delete, read for get, exists and list) fails with a validation
\* error and sends no request.
C18_UncoveredPathFailsLocally ==
    (/\ done.op \in StorageWriteOps \cup StorageReadOps
     /\ done.box = "live"
     /\ ~permits(granted, done.path,
                 IF done.op \in StorageWriteOps THEN "w" ELSE "r"))
    => /\ done.outcome = "error"
       /\ done.kind = "validation"
       /\ ~done.sent

\* A put to a path the session may only read is refused without a request.
C18_Witness ==
    /\ done.op = "put_text"
    /\ done.box = "live"
    /\ done.path = <<"pub", "a">>
    /\ permits(granted, done.path, "r")
    /\ ~permits(granted, done.path, "w")
    /\ done.outcome = "error"
    /\ ~done.sent
    /\ store[done.path] = Absent

\* The calls on a public storage handle, its creation included.
PublicStorageOps ==
    PublicGetOps
        \cup {"public_storage", "public_exists", "public_list", "public_free"}

\* C19: no call on a public storage handle (the creation of the handle, get,
\* exists, list, free) changes a stored object, a session or a session
\* storage handle, and the handle is created and answers whether or not a
\* session exists.
C19_PublicStorageReadsOnly ==
    /\ [][done'.op \in PublicStorageOps =>
            /\ store' = store
            /\ written' = written
            /\ heap' = heap
            /\ caps' = caps
            /\ storage' = storage]_vars
    /\ [][(done'.op = "public_storage" /\ done'.outcome = "ok")
            => public' = "live"]_vars
    /\ []((/\ done.op \in {"public_exists", "public_list"}
           /\ done.box = "live"
           /\ done.kind # "validation")
            => done.sent)

\* With no signer used and no session made, a public storage handle is
\* created and its list call is answered by the homeserver.
C19_Witness ==
    /\ \A h \in Sessions : heap[h] = "unalloc"
    /\ public = "live"
    /\ done.op = "public_list"
    /\ done.outcome = "ok"
    /\ done.sent
    /\ done.data = <<>>

\* C20: pubky_session_storage_exists returns "false" for a path no put has
\* succeeded on, "true" when the last successful write to the path is a put,
\* and "false" when it is a delete.
C20_ExistsFollowsLastWrite ==
    (done.op = "exists" /\ done.outcome = "ok" /\ done.box = "live") =>
        /\ written[done.path] = "none" => done.data = "false"
        /\ written[done.path] = "put" => done.data = "true"
        /\ written[done.path] = "delete" => done.data = "false"

\* exists returns "false" after a put and then a delete have succeeded.
C20_Witness ==
    /\ done.op = "exists"
    /\ done.outcome = "ok"
    /\ done.box = "live"
    /\ written[done.path] = "delete"
    /\ done.data = "false"

\* The code of each kind of failure of a request (error.rs:54-58).
RequestKindCode ==
    [network |-> 1, resolution |-> 2, parse |-> 3, authentication |-> 4,
     build |-> 5]

\* C30: a get that fails after its request was made reports the code of the
\* failure's kind, request 1, resolution 2, parse 3, authentication 4, build
\* 5, whether it returns bytes (get_bytes) or text (get_text, get_json): the
\* same failure has the same code in both.
C30_BytesGetsReportKindCode ==
    (/\ done.op \in GetOps \cup PublicGetOps
     /\ done.outcome = "error"
     /\ done.sent)
    => done.code = RequestKindCode[done.kind]

(***************************************************************************)
(* Properties of the result structures (checked under SpecResults)         *)
(***************************************************************************)
\* The buffers a result structure points to.
Fields(r) ==
    IF r.type = "none" THEN {}
    ELSE {r.data, r.body, r.headers, r.error} \cap Addrs

\* The result structures, as against a string returned alone.
ResultTypes == {"FfiResult", "FfiBytesResult", "FfiHttpResponse"}

\* C26: every buffer handed to the caller in a result structure is released
\* exactly once by the free function of the structure: the buffers in the
\* caller's hands are those of the result it holds, no buffer is released
\* twice, a free call releases each non-null field once and nothing else,
\* and pubky_string_free and pubky_bytes_free of a null pointer do nothing.
C26_BuffersReleasedExactlyOnce ==
    /\ [](\A a \in Addrs :
            /\ bufs[a] # "double"
            /\ (bufs[a] = "owned") = (a \in Fields(held)))
    /\ [][(held # NoResult /\ held' = NoResult)
            => \A a \in Addrs :
                  bufs'[a] = IF a \in Fields(held) THEN "released"
                             ELSE bufs[a]]_vars
    /\ [][(/\ done'.op \in {"pubky_string_free", "pubky_bytes_free"}
           /\ done'.ptr = NULL)
            => (bufs' = bufs /\ held' = held)]_vars

\* An HTTP response with a body and headers was released: no result is
\* held and both buffers are released.
C26_Witness ==
    /\ done.op = "pubky_http_response_free"
    /\ held = NoResult
    /\ Cardinality({a \in Addrs : bufs[a] = "released"}) >= 2

\* C29: every FfiResult, FfiBytesResult and FfiHttpResponse the library
\* builds is a success or a failure: code is 0 exactly when error is null,
\* and with a non-null error the payload fields are empty (data, body and
\* headers null, len 0, status 0).
C29_ResultIsSuccessOrFailure ==
    (held # NoResult /\ held.type \in ResultTypes) =>
        /\ (held.code = 0) = (held.error = NULL)
        /\ held.error # NULL =>
              /\ held.data = NULL
              /\ held.body = NULL
              /\ held.headers = NULL
              /\ held.len = 0
              /\ held.status = 0

\* The caller holds a failed FfiBytesResult, and has held a result before.
C29_Witness ==
    /\ held # NoResult
    /\ held.type = "FfiBytesResult"
    /\ held.error # NULL
    /\ held.code = 1
    /\ \E a \in Addrs : bufs[a] = "released"


(***************************************************************************)
(* Properties of the entry points on the global instances (checked under   *)
(* SpecJson, SpecPubky, SpecGlobals, SpecOnce)                             *)
(***************************************************************************)
\* The characters of a hex text.
HexDigits ==
    {HexLower[i] : i \in 1..Len(HexLower)}
    \cup {HexUpper[i] : i \in 1..Len(HexUpper)}

\* The argument is the hex text of a secret key: a string of two hex digits
\* for each byte of the key.
IsSecretKey(a) ==
    /\ a.valid
    /\ Len(a.text) = 2 * SecretLen
    /\ \A i \in 1..Len(a.text) : a.text[i] \in HexDigits

\* The call was made with a secret key that is no key, or is a signup with
\* a homeserver key that does not parse.
LocallyInvalid(d) ==
    /\ d.op \in SecretOps
    /\ \/ ~IsSecretKey(d.secret)
       \/ d.op = "pubky_signup"
          /\ ~(d.other.valid /\ try_from_z32_ok(d.other.text))

\* C22: an operation whose input fails local validation issues no request
\* and initializes no shared instance. cross_request on a URL that
\* prepare_request rejects returns that error and no builder of either
\* engine; pubky_signup, pubky_signin, pubky_put, pubky_get and pubky_delete
\* with a secret key that is not the hex text of a key (or, for signup, a
\* homeserver key that does not parse) return an error, attempt no request,
\* get no instance, and leave every cell and the runtime as they were.
C22_LocalFailureReachesNothing ==
    /\ [](/\ (last.op = "cross" /\ prepare_request(url).tag = "Err")
                => last.res = [tag |-> "Err", err |-> "Validation"]
          /\ LocallyInvalid(done)
                => /\ done.outcome = "error"
                   /\ ~done.attempted
                   /\ done.inst = 0)
    /\ [][LocallyInvalid(done')
             => /\ cells' = cells
                /\ runtime' = runtime
                /\ inflight' = inflight]_vars

\* A signup with a key one byte short was rejected while no instance and no
\* runtime exists, and cross_request returned the error of a display-form
\* host.
C22_Witness ==
    /\ done.op = "pubky_signup"
    /\ done.check = "Secret key must be exactly 32 bytes"
    /\ done.outcome = "error"
    /\ \A c \in Cells : cells[c] = 0
    /\ runtime["lib.rs"] = "uninit"
    /\ last.op = "cross"
    /\ last.res.tag = "Err"

\* C23: when the resolver has no homeserver record for a key, the lookup is
\* a success: pubky_get_homeserver_of, called with a handle and a key,
\* returns code 0, a null error and no data, and pubky_resolve_homeserver
\* returns a success response whose homeserver is null.
C23_AbsentRecordIsSuccess ==
    /\ (/\ done.op = "pubky_get_homeserver_of"
        /\ done.h # "null"
        /\ done.key # "null"
        /\ done.answer = "absent")
          => /\ done.result.code = 0
             /\ done.result.error = NULL
             /\ done.result.data = NULL
    /\ (done.op = "pubky_resolve_homeserver" /\ done.answer = "absent")
          => done.json = [success |-> TRUE, data |-> "homeserver: null"]

\* pubky_get_homeserver_of returned for a key without a record, through the
\* handle of the testnet instance.
C23_Witness ==
    /\ done.op = "pubky_get_homeserver_of"
    /\ done.h = "testnet"
    /\ done.key = "key"
    /\ done.answer = "absent"
    /\ done.outcome = "ok"
    /\ held = done.result

\* The calls that return with an instance of a cell.
InstanceOps == NewOps \cup JsonOps

\* C24: under any interleaving of the calls, each global instance (the
\* Pubky and the HTTP client of each network in lib.rs, the Pubky of each
\* network in runtime.rs) is constructed at most once, every call that gets
\* an instance of a cell gets the one the cell holds, and a full cell is
\* never written again.
C24_GlobalInstanceBuiltOnce ==
    /\ [](/\ \A c \in Cells : cells[c] <= 1
          /\ (done.op \in InstanceOps /\ done.inst # 0)
                => done.inst = cells[done.cell]
          /\ (last.op = "ffi_http" /\ last.inst # 0)
                => last.inst = cells[last.cell])
    /\ [][\A c \in Cells : cells[c] # 0 => cells'[c] = cells[c]]_vars

\* pubky_new returned the instance of the full cell while another first
\* call of the same cell is still inside get_global_pubky, and
\* pubky_http_request got the HTTP client of the testnet cell.
C24_Witness ==
    /\ done.op = "pubky_new"
    /\ done.outcome = "ok"
    /\ done.inst = 1
    /\ \E d \in BagToSet(inflight) :
          d.cell = done.cell /\ d.pc = "get_or_init"
    /\ last.op = "ffi_http"
    /\ last.inst = 1
    /\ cells["HTTP_CLIENT_TESTNET_INSTANCE"] = 1

\* C25: the global Tokio runtime is initialized before either global Pubky
\* instance is created: the step that fills a cell of runtime.rs, and every
\* thread inside the closure that creates the instance, finds the runtime
\* initialized, whichever entry point came first.
C25_RuntimeBeforePubky ==
    /\ [](Alive =>
            \A c \in OnceCells :
               (\/ cells[c] # 0
                \/ \E d \in BagToSet(inflight) :
                      d.cell = c /\ d.pc = "closure")
                  => runtime["runtime.rs"] = "init")
    /\ [][\A c \in OnceCells :
             (cells[c] = 0 /\ cells'[c] # 0)
                => runtime["runtime.rs"] = "init"]_vars

\* The testnet instance was created by pubky_testnet, which does not touch
\* the runtime itself, while a first call of pubky_init is waiting.
C25_Witness ==
    /\ done.op = "pubky_testnet"
    /\ done.outcome = "ok"
    /\ cells["GLOBAL_PUBKY_TESTNET_CELL"] = 1
    /\ cells["GLOBAL_PUBKY_CELL"] = 0
    /\ runtime["runtime.rs"] = "init"
    /\ \E d \in BagToSet(inflight) : d.op = "pubky_init"

(***************************************************************************)
(* Properties of the list calls (checked under SpecList)                   *)
(***************************************************************************)
ListOps == {"list", "public_list", "pubky_public_list"}

\* The place of a path in the order of the homeserver.
Place(p) == CHOOSE i \in 1..Len(PathOrder) : PathOrder[i] = p

\* C21: a list call on directory D with limit L that succeeds returns at
\* most L entries, every entry is a path under D, and the entries come in
\* the order of the homeserver; this holds for every L, L = 0 included.
C21_ListTruncatesAtLimit ==
    (done.op \in ListOps /\ done.outcome = "ok")
       => /\ Len(done.data) <= done.limit
          /\ \A i \in 1..Len(done.data) : is_prefix(done.path, done.data[i])
          /\ \A i, j \in 1..Len(done.data) :
                i < j => Place(done.data[i]) < Place(done.data[j])

====
